---- MODULE Spec2Model ----
(***************************************************************************)
(* Model of the document question-answering service: the ask pipeline      *)
(* (scope resolution, rewrite, agent retrieval loop, guardrail), the       *)
(* evidence pool merge, the confidence formula and the upload path with    *)
(* its vector store and registry.                                          *)
(*                                                                         *)
(* Conventions                                                             *)
(*  - Scores and confidences are numbers with four decimals in the code;   *)
(*    here they are integers in units of 1e-4 (0.85 is 8500).  Arithmetic  *)
(*    on them is exact rational arithmetic, rounded as Math.round rounds   *)
(*    (half up).                                                           *)
(*  - A string is a sequence of tokens; the token " " is whitespace, so    *)
(*    that trim() is computed and not assumed.                             *)
(***************************************************************************)
EXTENDS Integers, Sequences, FiniteSets, TLC

VARIABLES
    store,            \* the vector store: a set of records, each in a namespace
    pc,               \* position of the ask request
    request,          \* the ask request as the caller sent it
    question,         \* the trimmed question handed to runRagWorkflow
    context,          \* what resolveAskContext returned
    rewriteOutput,    \* how the rewrite model call settled
    rewrittenQuery,   \* what rewriteQuestion returned
    gatheredSources,  \* the evidence pool of runRagWorkflow
    structured,       \* the controller's structured response
    result,           \* the AskResponse, once returned
    error,            \* the error thrown to the caller, once thrown
    calls,            \* how many rewrite / retrieval / agent calls were issued
    observed,         \* per chunk id, the highest score any retrieval returned
    upPc,             \* per upload, its position in uploadDocument
    upTenant,         \* per upload, the tenant_id form field
    upTime,           \* per upload, its uploadedAt
    upPages,          \* per upload, the number of chunks of each page
    upAcked,          \* per upload, whether the chunk upsert was acknowledged
    upResult,         \* per upload, the response or the error
    exPc,             \* position of the extract request
    exRequest,        \* the extract request as the caller sent it
    exIssued,         \* the uploads that had returned when the request was issued
    exIds,            \* the document ids the extract request resolved to
    exItem,           \* the registry item of the document being processed
    exText,           \* the text rebuilt from the chunks of that document
    exOutput,         \* what the extraction model returned last
    exResults,        \* the results collected so far
    exResponse,       \* the ExtractResponse, once returned
    exError,          \* the error thrown to the caller, once thrown
    ckPc,             \* position of the chunker call
    ckFile,           \* the uploaded file, when uploadDocument calls the chunker
    ckParams,         \* the parameters of the createChunksFromPages call
    ckChunks,         \* the chunk records it returned
    lsPc,             \* position of the registry listing
    lsCaller,         \* which operation lists: listRegistryItems or getLatestDocumentId
    lsPending,        \* the registry ids the store has yet to page out
    lsPages,          \* the pages of registry ids listed so far
    lsItems,          \* the registry items fetched and sorted
    lsResult,         \* what the operation returned
    fcPc,             \* position of the fetchDocumentChunks call
    fcParams,         \* its parameters
    fcPending,        \* the records the store has yet to page out
    fcCollected,      \* the snippets collected so far
    fcPages,          \* how many pages the store has returned
    fcResult,         \* what the call returned
    qyPc,             \* position of the queryHybrid call
    qyParams,         \* its parameters
    qyRequest,        \* the index.query request it sent
    qyResult,         \* what the call returned
    inFlight,         \* the external calls of the ask that have not settled
    bdPc,             \* position of the buildOverlappingChunks call
    bdParams,         \* its parameters
    bdRest,           \* the paragraphs its loop has yet to take
    bdCurrent,        \* its buffer, `current`
    bdChunks          \* its chunk list, `chunks`

vars == <<store, pc, request, question, context, rewriteOutput, rewrittenQuery, gatheredSources,
          structured, result, error, calls, observed,
          upPc, upTenant, upTime, upPages, upAcked, upResult,
          exPc, exRequest, exIssued, exIds, exItem, exText, exOutput, exResults, exResponse,
          exError,
          ckPc, ckFile, ckParams, ckChunks,
          lsPc, lsCaller, lsPending, lsPages, lsItems, lsResult,
          fcPc, fcParams, fcPending, fcCollected, fcPages, fcResult,
          qyPc, qyParams, qyRequest, qyResult,
          inFlight,
          bdPc, bdParams, bdRest, bdCurrent, bdChunks>>

askVars == <<pc, request, question, context, rewriteOutput, rewrittenQuery, gatheredSources,
             structured, result, error, calls, observed>>

uploadVars == <<upPc, upTenant, upTime, upPages, upAcked, upResult>>

extractVars ==
    <<exPc, exRequest, exIssued, exIds, exItem, exText, exOutput, exResults, exResponse,
          exError>>

buildVars == <<bdPc, bdParams, bdRest, bdCurrent, bdChunks>>

chunkerVars == <<ckPc, ckFile, ckParams, ckChunks, buildVars>>

listVars == <<lsPc, lsCaller, lsPending, lsPages, lsItems, lsResult>>

fetchVars == <<fcPc, fcParams, fcPending, fcCollected, fcPages, fcResult>>

queryVars == <<qyPc, qyParams, qyRequest, qyResult>>

\* The variables of the store operations called on their own.
opVars == <<fetchVars, queryVars, inFlight>>

\* null / undefined
NONE == [none |-> TRUE]
\* an optional string or list that is present
Some(v) == [some |-> v]

(***************************************************************************)
(* Strings                                                                 *)
(***************************************************************************)
WS == " "

RECURSIVE TrimStart(_)
TrimStart(s) ==
    IF s # <<>> /\ Head(s) = WS THEN TrimStart(Tail(s)) ELSE s

RECURSIVE TrimEnd(_)
TrimEnd(s) ==
    IF s # <<>> /\ s[Len(s)] = WS THEN TrimEnd(SubSeq(s, 1, Len(s) - 1)) ELSE s

Trim(s) == TrimEnd(TrimStart(s))

(***************************************************************************)
(* Numbers: fractions in units of 1e-4                                     *)
(***************************************************************************)
Min(a, b) == IF a < b THEN a ELSE b
Max(a, b) == IF a > b THEN a ELSE b

clamp(value, min, max) == Max(min, Min(max, value))

Frac(n, d) == [num |-> n, den |-> d]

\* Math.round(value * 10^4) / 10^4 of a sum of three non-negative fractions
\* given in units of 1e-4: the integer parts are added, the fractional parts
\* are brought to one denominator, and a remainder of a half or more rounds up.
\* Mutant: the sum is truncated, not rounded.
roundTo3Floor(a, b, c) ==
    (a.num \div a.den) + (b.num \div b.den) + (c.num \div c.den)
    + (((a.num % a.den) * b.den * c.den + (b.num % b.den) * a.den * c.den
        + (c.num % c.den) * a.den * b.den) \div (a.den * b.den * c.den))

roundTo3(a, b, c) ==
    LET whole == (a.num \div a.den) + (b.num \div b.den) + (c.num \div c.den)
        fd    == a.den * b.den * c.den
        fn    == (a.num % a.den) * b.den * c.den
                 + (b.num % b.den) * a.den * c.den
                 + (c.num % c.den) * a.den * b.den
    IN  whole + ((2 * fn + fd) \div (2 * fd))

roundTo(value) == roundTo3(Frac(value, 1), Frac(0, 1), Frac(0, 1))

(***************************************************************************)
(* Program constants (scores and confidences in units of 1e-4)             *)
(***************************************************************************)
TOP_K_PER_TOOL_CALL == 6
MAX_SOURCES_IN_STATE == 16
guardrailMinTopScore == 8500
guardrailLowConfidence == 4000
guardrailCautionConfidence == 6000
GroundingCap == 3500

SENTINEL == <<"Not found in document.">>
CAUTION_NOTICE == <<"\n\n", "Caution: This answer has moderate confidence.">>

(***************************************************************************)
(* The evidence pool                                                       *)
(***************************************************************************)
Snippet(id, score) == [id |-> id, score |-> score]

\* byId.set(source.id, source) when the id is new or the score is higher.  A
\* Map keeps the position of the first insertion of a key.
\* Mutant: the later snippet of an id always replaces the earlier one.
SetByIdLastWins(byId, source) ==
    IF \E i \in 1..Len(byId) : byId[i].id = source.id
    THEN [byId EXCEPT ![CHOOSE j \in 1..Len(byId) : byId[j].id = source.id] = source]
    ELSE Append(byId, source)

SetById(byId, source) ==
    IF \E i \in 1..Len(byId) : byId[i].id = source.id
    THEN LET i == CHOOSE j \in 1..Len(byId) : byId[j].id = source.id
         IN  IF source.score > byId[i].score
             THEN [byId EXCEPT ![i] = source]
             ELSE byId
    ELSE Append(byId, source)

RECURSIVE CollectById(_, _)
CollectById(byId, sources) ==
    IF sources = <<>> THEN byId
    ELSE CollectById(SetById(byId, Head(sources)), Tail(sources))

\* Array.prototype.sort((a, b) => b.score - a.score) is stable: an element goes
\* behind every element whose score is at least its own.
\* Mutant: an element goes in front of the elements of its own score.
InsertByScoreFront(sorted, source) ==
    LET k == Cardinality({i \in 1..Len(sorted) : sorted[i].score > source.score})
    IN  SubSeq(sorted, 1, k) \o <<source>> \o SubSeq(sorted, k + 1, Len(sorted))

InsertByScore(sorted, source) ==
    LET k == Cardinality({i \in 1..Len(sorted) : sorted[i].score >= source.score})
    IN  SubSeq(sorted, 1, k) \o <<source>> \o SubSeq(sorted, k + 1, Len(sorted))

RECURSIVE SortByScoreDesc(_, _)
SortByScoreDesc(sorted, rest) ==
    IF rest = <<>> THEN sorted
    ELSE SortByScoreDesc(InsertByScore(sorted, Head(rest)), Tail(rest))

\* Mutant: the pool is cut to the limit without being sorted first.
mergeSourcesUnsorted(existing, incoming, limit) ==
    LET byId == CollectById(<<>>, existing \o incoming)
    IN  SubSeq(byId, 1, Min(limit, Len(byId)))

mergeSources(existing, incoming, limit) ==
    LET byId   == CollectById(<<>>, existing \o incoming)
        sorted == SortByScoreDesc(<<>>, byId)
    IN  SubSeq(sorted, 1, Min(limit, Len(sorted)))

(***************************************************************************)
(* Confidence                                                              *)
(***************************************************************************)
\* Mutant: the retrieval signal wraps around at 2.5.
retrievalTermWrapped(topScore) == Frac(6 * (topScore % 25000), 25)

\* 0.6 * clamp(topScore / 2.5, 0, 1) in units of 1e-4: 6000 * R / 25000 = 6R / 25
\* with R = clamp(topScore, 0, 2.5).
retrievalTerm(topScore) == Frac(6 * clamp(topScore, 0, 25000), 25)

\* 0.25 * (topScore > 0 ? clamp(secondScore / topScore, 0, 1) : 0)
agreementTerm(topScore, secondScore) ==
    IF topScore > 0
    THEN Frac(2500 * clamp(secondScore, 0, topScore), topScore)
    ELSE Frac(0, 1)

\* 0.15 * (cited.length > 0 ? clamp(valid / cited.length, 0, 1) : 0)
citationTerm(sources, citedChunkIds) ==
    LET sourceIds == {sources[i].id : i \in 1..Len(sources)}
        validCitations ==
            Cardinality({i \in 1..Len(citedChunkIds) : citedChunkIds[i] \in sourceIds})
    IN  IF Len(citedChunkIds) > 0
        THEN Frac(1500 * clamp(validCitations, 0, Len(citedChunkIds)), Len(citedChunkIds))
        ELSE Frac(0, 1)

calculateConfidence(sources, citedChunkIds) ==
    LET topScore    == IF Len(sources) >= 1 THEN sources[1].score ELSE 0
        secondScore == IF Len(sources) >= 2 THEN sources[2].score ELSE topScore
    IN  roundTo3(retrievalTerm(topScore),
                 agreementTerm(topScore, secondScore),
                 citationTerm(sources, citedChunkIds))

(***************************************************************************)
(* The guardrail of runRagWorkflow                                         *)
(***************************************************************************)
\* agentResult.structuredResponse ?? { the not-found default }
StructuredOrDefault(structuredResponse) ==
    IF structuredResponse = NONE
    THEN [answer |-> SENTINEL, grounded |-> FALSE, not_found |-> TRUE,
          cited_chunk_ids |-> <<>>]
    ELSE structuredResponse

\* Mutant: the floor looks only at whether the pool is empty.
RetrievalFloorEmptyOnly(sources) == Len(sources) = 0

RetrievalFloor(sources) ==
    LET topScore == IF Len(sources) >= 1 THEN sources[1].score ELSE 0
    IN  Len(sources) = 0 \/ topScore < guardrailMinTopScore

\* Mutant: the gate needs both flags.
GroundingGateBoth(s) == s.not_found /\ ~s.grounded

GroundingGate(s) == s.not_found \/ ~s.grounded

\* Mutant: no caution branch.
ConfidencePolicyNoCaution(confidence, answer) ==
    IF confidence < guardrailLowConfidence
    THEN [answer |-> SENTINEL, confidence |-> roundTo(confidence),
          guardrail |-> "not_found"]
    ELSE [answer |-> answer, confidence |-> roundTo(confidence), guardrail |-> "ok"]

\* The else-branches on the confidence: not_found below the low threshold,
\* caution below the caution threshold, ok otherwise.
ConfidencePolicy(confidence, answer) ==
    IF confidence < guardrailLowConfidence
    THEN [answer |-> SENTINEL, confidence |-> roundTo(confidence),
          guardrail |-> "not_found"]
    ELSE IF confidence < guardrailCautionConfidence
    THEN [answer |-> answer \o CAUTION_NOTICE, confidence |-> roundTo(confidence),
          guardrail |-> "caution"]
    ELSE [answer |-> answer, confidence |-> roundTo(confidence), guardrail |-> "ok"]

\* Mutant: the grounding gate leaves the computed confidence as it is.
VerdictUncapped(sources, structuredResponse) ==
    LET s          == StructuredOrDefault(structuredResponse)
        confidence == calculateConfidence(sources, s.cited_chunk_ids)
        answer     == Trim(s.answer)
    IN  IF RetrievalFloor(sources)
        THEN [answer |-> SENTINEL, confidence |-> 0, guardrail |-> "not_found"]
        ELSE IF GroundingGate(s)
        THEN [answer |-> SENTINEL, confidence |-> roundTo(confidence),
              guardrail |-> "not_found"]
        ELSE ConfidencePolicy(confidence, answer)

\* The confidence, guardrail and answer that runRagWorkflow returns.
Verdict(sources, structuredResponse) ==
    LET s          == StructuredOrDefault(structuredResponse)
        confidence == calculateConfidence(sources, s.cited_chunk_ids)
        answer     == Trim(s.answer)
    IN  IF RetrievalFloor(sources)
        THEN [answer |-> SENTINEL, confidence |-> 0, guardrail |-> "not_found"]
        ELSE IF GroundingGate(s)
        THEN [answer |-> SENTINEL,
              confidence |-> roundTo(Min(confidence, GroundingCap)),
              guardrail |-> "not_found"]
        ELSE ConfidencePolicy(confidence, answer)

AskResponse(documentIds, rewritten, sources, structuredResponse) ==
    LET v == Verdict(sources, structuredResponse)
    IN  [document_id     |-> IF Len(documentIds) >= 1 THEN documentIds[1] ELSE <<>>,
         document_ids    |-> documentIds,
         answer          |-> v.answer,
         confidence      |-> v.confidence,
         guardrail       |-> v.guardrail,
         rewritten_query |-> rewritten,
         sources         |-> sources]

(***************************************************************************)
(* The store and the registry                                              *)
(***************************************************************************)
pineconeNamespace == <<"tenant-demo">>
DEFAULT_TENANT == <<"tenant-demo">>
REGISTRY_ID_PREFIX == <<"docmeta#">>

buildNamespace(tenantId) == pineconeNamespace \o <<":">> \o tenantId

getRegistryNamespace == pineconeNamespace \o <<":">> \o <<"registry">>

toRegistryId(documentId) == REGISTRY_ID_PREFIX \o documentId

\* The record saveRegistryItem upserts.
RegistryRecord(item) ==
    [namespace |-> getRegistryNamespace,
     id        |-> toRegistryId(item.documentId),
     metadata  |-> [record_type |-> "document_registry",
                    document_id |-> item.documentId,
                    file_name   |-> item.fileName,
                    uploaded_at |-> item.uploadedAt,
                    namespace   |-> item.namespace,
                    tenant_id   |-> item.tenantId,
                    chunk_count |-> item.chunkCount]]

\* toRegistryItem: the trimmed fields, or null when one of them is empty.
toRegistryItem(metadata) ==
    IF metadata = NONE THEN NONE
    ELSE LET documentId == Trim(metadata.document_id)
             fileName   == Trim(metadata.file_name)
             namespace  == Trim(metadata.namespace)
             tenantId   == Trim(metadata.tenant_id)
         IN  IF documentId = <<>> \/ fileName = <<>> \/ namespace = <<>> \/ tenantId = <<>>
             THEN NONE
             ELSE [documentId |-> documentId, fileName |-> fileName,
                   uploadedAt |-> metadata.uploaded_at, namespace |-> namespace,
                   tenantId |-> tenantId, chunkCount |-> metadata.chunk_count]

\* index.fetch({namespace, ids: [id]}).records[id]
FetchRecord(st, namespace, id) ==
    IF \E r \in st : r.namespace = namespace /\ r.id = id
    THEN CHOOSE r \in st : r.namespace = namespace /\ r.id = id
    ELSE NONE

getRegistryItem(st, documentId) ==
    LET record   == FetchRecord(st, getRegistryNamespace, toRegistryId(documentId))
        metadata == IF record = NONE THEN NONE ELSE record.metadata
        mapped   == toRegistryItem(metadata)
    IN  IF mapped = NONE THEN NONE ELSE [mapped EXCEPT !.documentId = documentId]

\* listRegistryItems, newest first; getLatestDocumentId takes its first entry.
RegistryItems(st) ==
    {toRegistryItem(r.metadata) :
        r \in {x \in st : /\ x.namespace = getRegistryNamespace
                          /\ Len(x.id) >= 1
                          /\ x.id[1] = REGISTRY_ID_PREFIX[1]}} \ {NONE}

\* Mutant: the list is sorted oldest first.
getOldestDocumentId(st) ==
    LET items == RegistryItems(st)
    IN  IF items = {} THEN NONE
        ELSE Some((CHOOSE i \in items :
                      \A j \in items : i.uploadedAt <= j.uploadedAt).documentId)

getLatestDocumentId(st) ==
    LET items == RegistryItems(st)
    IN  IF items = {} THEN NONE
        ELSE Some((CHOOSE i \in items :
                      \A j \in items : j.uploadedAt <= i.uploadedAt).documentId)

(***************************************************************************)
(* Scope resolution of an ask                                              *)
(***************************************************************************)
Failure(status, message) == [ok |-> FALSE, status |-> status, message |-> message]

RECURSIVE Unique(_, _)
Unique(seen, ids) ==
    IF ids = <<>> THEN seen
    ELSE IF \E i \in 1..Len(seen) : seen[i] = Head(ids)
         THEN Unique(seen, Tail(ids))
         ELSE Unique(Append(seen, Head(ids)), Tail(ids))

\* (params.documentIds ?? []).map(trim).filter(nonempty)
RECURSIVE RawIds(_)
RawIds(ids) ==
    IF ids = <<>> THEN <<>>
    ELSE IF Trim(Head(ids)) = <<>> THEN RawIds(Tail(ids))
         ELSE <<Trim(Head(ids))>> \o RawIds(Tail(ids))

\* Mutant: an id that is not registered falls back to the latest document.
resolveDocumentContextFallback(st, documentId) ==
    LET latest   == getLatestDocumentId(st)
        given    == IF documentId = NONE THEN latest ELSE documentId
        selected == IF given # NONE /\ getRegistryItem(st, given.some) = NONE
                    THEN latest ELSE given
        item     == getRegistryItem(st, selected.some)
    IN  IF selected = NONE \/ selected.some = <<>>
        THEN Failure(404, "No uploaded document found. Upload a document first.")
        ELSE IF item = NONE
        THEN Failure(404, "Document was not found.")
        ELSE [ok |-> TRUE, documentId |-> selected.some, namespace |-> item.namespace,
              tenantId |-> item.tenantId]

resolveDocumentContext(st, documentId) ==
    LET selected == IF documentId = NONE THEN getLatestDocumentId(st) ELSE documentId
        item     == getRegistryItem(st, selected.some)
    IN  IF selected = NONE \/ selected.some = <<>>
        THEN Failure(404, "No uploaded document found. Upload a document first.")
        ELSE IF item = NONE
        THEN Failure(404, "Document was not found.")
        ELSE [ok |-> TRUE, documentId |-> selected.some, namespace |-> item.namespace,
              tenantId |-> item.tenantId]

\* Mutant: the namespaces of the resolved documents are not compared.
resolveAskContextNoCheck(st, params) ==
    LET rawIds    == RawIds(IF params.documentIds = NONE THEN <<>> ELSE params.documentIds.some)
        uniqueIds == Unique(<<>>, rawIds)
        items     == [i \in 1..Len(uniqueIds) |-> getRegistryItem(st, uniqueIds[i])]
        single    == resolveDocumentContext(st, params.documentId)
    IN  IF Len(rawIds) > 0
        THEN IF \E i \in 1..Len(uniqueIds) : items[i] = NONE
             THEN Failure(404, "Document(s) not found")
             ELSE [ok |-> TRUE, namespace |-> items[1].namespace,
                   tenantId |-> items[1].tenantId, documentIds |-> uniqueIds]
        ELSE IF ~single.ok THEN single
             ELSE [ok |-> TRUE, namespace |-> single.namespace,
                   tenantId |-> single.tenantId, documentIds |-> <<single.documentId>>]

resolveAskContext(st, params) ==
    LET rawIds    == RawIds(IF params.documentIds = NONE THEN <<>> ELSE params.documentIds.some)
        uniqueIds == Unique(<<>>, rawIds)
        items     == [i \in 1..Len(uniqueIds) |-> getRegistryItem(st, uniqueIds[i])]
        single    == resolveDocumentContext(st, params.documentId)
    IN  IF Len(rawIds) > 0
        THEN IF \E i \in 1..Len(uniqueIds) : items[i] = NONE
             THEN Failure(404, "Document(s) not found")
             ELSE IF ~(\A i \in 1..Len(items) : items[i].namespace = items[1].namespace)
             THEN Failure(400, "Selected documents belong to different namespaces.")
             ELSE [ok |-> TRUE, namespace |-> items[1].namespace,
                   tenantId |-> items[1].tenantId, documentIds |-> uniqueIds]
        ELSE IF ~single.ok THEN single
             ELSE [ok |-> TRUE, namespace |-> single.namespace,
                   tenantId |-> single.tenantId, documentIds |-> <<single.documentId>>]

(***************************************************************************)
(* Bounds and inputs of the ask pipeline                                   *)
(***************************************************************************)
MaxRetrievals == 3
NumChunks == 2
MaxHits == 2
NumWindows == 3

\* Chunk ids the small query results draw from, and all chunk ids of the store.
ChunkIds == 1..NumChunks
AllChunkIds == 1..Max(NumChunks, NumWindows * TOP_K_PER_TOOL_CALL)

\* Scores the store returns: zero, below the retrieval floor (0.81), at the
\* floor (0.85) and above it (0.9).
ScoreLevels == {0, 8100, 8500, 9000}

Hit == {Snippet(id, sc) : id \in ChunkIds, sc \in ScoreLevels}

\* Any list of up to MaxHits matches: any ids (also repeated), any scores.
AnyResults == UNION {[1..n -> Hit] : n \in 0..MaxHits}

\* What one queryHybrid call returns in the pipeline: up to MaxHits matches as
\* the store ranks them, best first, one per chunk id.
QueryResults ==
    {h \in AnyResults :
        /\ \A i, j \in 1..Len(h) : i # j => h[i].id # h[j].id
        /\ \A i \in 1..Len(h) - 1 : h[i].score >= h[i + 1].score}

D1 == <<"d1">>
D2 == <<"d2">>
D3 == <<"d3">>
D9 == <<"d9">>

AskRequest(q, d, ds) == [question |-> q, documentId |-> d, documentIds |-> ds]

AskRequests ==
    {AskRequest(<<"q">>, Some(D9), Some(<<D1, <<WS>> \o D2, <<WS>>, D1>>)),
     AskRequest(<<WS, "q", WS>>, NONE, NONE),
     AskRequest(<<"q">>, Some(D1), Some(<<D1, D3>>)),
     AskRequest(<<"q">>, NONE, Some(<<D3, D2, D1>>)),
     AskRequest(<<"q">>, NONE, Some(<<D2, D9>>)),
     AskRequest(<<"q">>, NONE, Some(<<D9, D3, D1>>)),
     AskRequest(<<"q">>, Some(D9), NONE),
     AskRequest(<<"q">>, Some(<<>>), Some(<<<<WS>>>>)),
     AskRequest(<<WS>>, Some(D1), NONE),
     AskRequest(<<>>, NONE, Some(<<D1, D3>>))}

\* The registry as three finished uploads left it: d1 and d2 of one tenant,
\* d3 of another.
AskStore ==
    {RegistryRecord([documentId |-> D1, fileName |-> <<"a.txt">>, uploadedAt |-> 1,
                     namespace |-> buildNamespace(<<"acme">>), tenantId |-> <<"acme">>,
                     chunkCount |-> 1]),
     RegistryRecord([documentId |-> D2, fileName |-> <<"b.txt">>, uploadedAt |-> 2,
                     namespace |-> buildNamespace(<<"acme">>), tenantId |-> <<"acme">>,
                     chunkCount |-> 1]),
     RegistryRecord([documentId |-> D3, fileName |-> <<"c.txt">>, uploadedAt |-> 3,
                     namespace |-> buildNamespace(<<"globex">>), tenantId |-> <<"globex">>,
                     chunkCount |-> 1])}

\* What the rewrite model returns as its query.
RewriteOutputs == {<<WS, "rq", WS>>, <<WS>>}

\* What the controller returns as its structured response; chunk id 0 is an
\* id no retrieval returns.
CitedLists == {<<>>, <<1>>, <<1, 0>>, <<0>>, <<2, 1>>}

StructuredResponses ==
    {[answer |-> a, grounded |-> g, not_found |-> nf, cited_chunk_ids |-> c] :
        a \in {<<WS, "A", WS>>, SENTINEL},
        g \in BOOLEAN, nf \in BOOLEAN, c \in CitedLists}

NoCalls == [rewrite |-> 0, retrieval |-> 0, agent |-> 0]

(***************************************************************************)
(* The ask request: askDocumentQuestion and runRagWorkflow                 *)
(***************************************************************************)
AskInit ==
    /\ pc = "start"
    /\ request \in AskRequests
    /\ question = <<>>
    /\ context = NONE
    /\ rewriteOutput = NONE
    /\ rewrittenQuery = <<>>
    /\ gatheredSources = <<>>
    /\ structured = NONE
    /\ result = NONE
    /\ error = NONE
    /\ calls = NoCalls
    /\ observed = [id \in AllChunkIds |-> NONE]

\* Mutant: the question is tested for emptiness without being trimmed.
ValidateQuestionNoTrim ==
    /\ pc = "start"
    /\ question' = Trim(request.question)
    /\ IF request.question = <<>>
       THEN /\ pc' = "failed"
            /\ error' = [status |-> 400, message |-> "Question cannot be empty."]
       ELSE /\ pc' = "resolve"
            /\ UNCHANGED error
    /\ UNCHANGED <<store, request, context, rewriteOutput, rewrittenQuery, gatheredSources,
                   structured, result, calls, observed, uploadVars, extractVars,
                   chunkerVars, listVars, opVars>>

\* askDocumentQuestion up to its first await: trim the question, reject an
\* empty one.
ValidateQuestion ==
    /\ pc = "start"
    /\ question' = Trim(request.question)
    /\ IF question' = <<>>
       THEN /\ pc' = "failed"
            /\ error' = [status |-> 400, message |-> "Question cannot be empty."]
       ELSE /\ pc' = "resolve"
            /\ UNCHANGED error
    /\ UNCHANGED <<store, request, context, rewriteOutput, rewrittenQuery, gatheredSources,
                   structured, result, calls, observed, uploadVars, extractVars,
                   chunkerVars, listVars, opVars>>

\* resolveAskContext returns or throws.
ResolveScope ==
    /\ pc = "resolve"
    /\ LET ctx == resolveAskContext(store, request)
       IN  IF ctx.ok
           THEN /\ context' = ctx
                /\ pc' = "rewrite"
                /\ UNCHANGED error
           ELSE /\ error' = [status |-> ctx.status, message |-> ctx.message]
                /\ pc' = "failed"
                /\ UNCHANGED context
    /\ UNCHANGED <<store, request, question, rewriteOutput, rewrittenQuery, gatheredSources,
                   structured, result, calls, observed, uploadVars, extractVars,
                   chunkerVars, listVars, opVars>>

\* rewriteQuestion: the trimmed output, or the question when the output is
\* empty or the model call throws.
THREW == [threw |-> TRUE]

\* Mutant: an empty rewritten query is returned as it is.
rewriteQuestionNoFallback(q, output) ==
    IF output = THREW THEN q ELSE Trim(output.query)

rewriteQuestion(q, output) ==
    IF output = THREW THEN q
    ELSE LET rewritten == Trim(output.query)
         IN  IF Len(rewritten) > 0 THEN rewritten ELSE q

\* The rewrite call settles; runRagWorkflow goes on to agent.invoke.
Rewrite ==
    /\ pc = "rewrite"
    /\ rewriteOutput' \in {THREW} \cup {[query |-> t] : t \in RewriteOutputs}
    /\ rewrittenQuery' = rewriteQuestion(question, rewriteOutput')
    /\ calls' = [calls EXCEPT !.rewrite = @ + 1, !.agent = @ + 1]
    /\ pc' = "agent"
    /\ UNCHANGED <<store, request, question, context, gatheredSources,
                   structured, result, error, observed, uploadVars, extractVars,
                   chunkerVars, listVars, opVars>>

\* The highest score the retrieval calls have returned so far for each chunk
\* id, given one more result.
Observe(obs, hits) ==
    [id \in DOMAIN obs |->
        LET scores == {hits[i].score : i \in {j \in 1..Len(hits) : hits[j].id = id}}
                      \cup (IF obs[id] = NONE THEN {} ELSE {obs[id].score})
        IN  IF scores = {} THEN NONE
            ELSE [score |-> CHOOSE m \in scores : \A x \in scores : x <= m]]

\* The retrieve_document_chunks tool: one queryHybrid call, merged into the pool.
RetrieveDocumentChunks(hits) ==
    /\ pc = "agent"
    /\ calls.retrieval < MaxRetrievals
    /\ gatheredSources' = mergeSources(gatheredSources, hits, MAX_SOURCES_IN_STATE)
    /\ calls' = [calls EXCEPT !.retrieval = @ + 1]
    /\ observed' = Observe(observed, hits)
    /\ UNCHANGED <<store, pc, request, question, context, rewriteOutput, rewrittenQuery,
                   structured, result, error, uploadVars, extractVars,
                   chunkerVars, listVars, opVars>>

\* Mutant: the gates run on the pool as it was before agent.invoke.
AnswerOnInitialPool ==
    /\ pc = "agent"
    /\ structured' \in StructuredResponses \cup {NONE}
    /\ result' = AskResponse(context.documentIds, rewrittenQuery, <<>>, structured')
    /\ pc' = "done"
    /\ UNCHANGED <<store, request, question, context, rewriteOutput, rewrittenQuery,
                   gatheredSources, error, calls, observed, uploadVars, extractVars,
                   chunkerVars, listVars, opVars>>

\* agent.invoke resolves with the controller's structured response (or none);
\* the three gates run and the response is returned.
Answer ==
    /\ pc = "agent"
    /\ structured' \in StructuredResponses \cup {NONE}
    /\ result' = AskResponse(context.documentIds, rewrittenQuery, gatheredSources,
                             structured')
    /\ pc' = "done"
    /\ UNCHANGED <<store, request, question, context, rewriteOutput, rewrittenQuery,
                   gatheredSources, error, calls, observed, uploadVars, extractVars,
                   chunkerVars, listVars, opVars>>

\* Mutant: the rejection of agent.invoke is caught and the ask returns.
AgentFailsCaught ==
    /\ pc = "agent"
    /\ error' = [status |-> 500, message |-> "upstream"]
    /\ pc' = "done"
    /\ UNCHANGED <<store, request, question, context, rewriteOutput, rewrittenQuery,
                   gatheredSources, structured, result, calls, observed, uploadVars, extractVars,
                   chunkerVars, listVars, opVars>>

\* agent.invoke rejects: a model call or a retrieval failed.
AgentFails ==
    /\ pc = "agent"
    /\ error' = [status |-> 500, message |-> "upstream"]
    /\ pc' = "failed"
    /\ UNCHANGED <<store, request, question, context, rewriteOutput, rewrittenQuery,
                   gatheredSources, structured, result, calls, observed, uploadVars, extractVars,
                   chunkerVars, listVars, opVars>>

UploadIdle ==
    /\ upPc = <<>>
    /\ upTenant = <<>>
    /\ upTime = <<>>
    /\ upPages = <<>>
    /\ upAcked = <<>>
    /\ upResult = <<>>

\* The chunker is not running.
\* buildOverlappingChunks is not followed step by step.
BuildIdle ==
    /\ bdPc = "idle"
    /\ bdParams = NONE
    /\ bdRest = <<>>
    /\ bdCurrent = <<>>
    /\ bdChunks = <<>>

ChunkerIdle ==
    /\ ckPc = "idle"
    /\ ckFile = NONE
    /\ ckParams = NONE
    /\ ckChunks = <<>>
    /\ BuildIdle

\* No registry listing is in progress.
ListIdle ==
    /\ lsPc = "idle"
    /\ lsCaller = "none"
    /\ lsPending = {}
    /\ lsPages = <<>>
    /\ lsItems = <<>>
    /\ lsResult = NONE

\* No store operation is called on its own, and no call of the ask is
\* tracked.
OpsIdle ==
    /\ fcPc = "idle"
    /\ fcParams = NONE
    /\ fcPending = {}
    /\ fcCollected = <<>>
    /\ fcPages = 0
    /\ fcResult = NONE
    /\ qyPc = "idle"
    /\ qyParams = NONE
    /\ qyRequest = NONE
    /\ qyResult = NONE
    /\ inFlight = {}

\* No extract is in progress.
ExtractIdle ==
    /\ exPc = "idle"
    /\ exRequest = [documentId |-> NONE, documentIds |-> NONE]
    /\ exIssued = {}
    /\ exIds = <<>>
    /\ exItem = NONE
    /\ exText = <<>>
    /\ exOutput = NONE
    /\ exResults = <<>>
    /\ exResponse = NONE
    /\ exError = NONE

\* The registry the ask finds: the three documents, or nothing uploaded yet.
AskStores == {AskStore, {}}

Init ==
    /\ store \in AskStores
    /\ AskInit
    /\ UploadIdle
    /\ ChunkerIdle
    /\ ListIdle
    /\ OpsIdle
    /\ ExtractIdle

Next ==
    \/ ValidateQuestion
    \/ ResolveScope
    \/ Rewrite
    \/ \E hits \in QueryResults : RetrieveDocumentChunks(hits)
    \/ Answer
    \/ AgentFails

Spec == Init /\ [][Next]_vars

(***************************************************************************)
(* The evidence pool alone: the retrieval loop of one ask, with results    *)
(* wide enough to fill the pool beyond its cap                             *)
(***************************************************************************)
\* A full page of TOP_K matches for chunk ids 6w+1 .. 6w+6, best first, the
\* scores falling by 0.01 per rank from `top`.
Window(w, top) ==
    [i \in 1..TOP_K_PER_TOOL_CALL |->
        Snippet(w * TOP_K_PER_TOOL_CALL + i, top - 100 * (i - 1))]

\* An empty result, every pair of matches (any two ids, also the same id
\* twice, in any order of scores) and every window.
MergeResults ==
    {<<>>}
    \cup {<<Snippet(a, sa), Snippet(b, sb)>> :
            a \in ChunkIds, b \in ChunkIds, sa \in {8100, 9000}, sb \in {8100, 9000}}
    \cup {Window(w, top) : w \in 0..NumWindows - 1, top \in {0, 9000, 30000}}

\* runRagWorkflow after the rewrite, agent.invoke issued, nothing retrieved yet.
MergeInit ==
    /\ store = AskStore
    /\ pc = "agent"
    /\ request = AskRequest(<<"q">>, Some(D9), Some(<<D1, <<WS>> \o D2, <<WS>>, D1>>))
    /\ question = <<"q">>
    /\ context = resolveAskContext(AskStore, request)
    /\ rewriteOutput = [query |-> <<"q">>]
    /\ rewrittenQuery = <<"q">>
    /\ gatheredSources = <<>>
    /\ structured = NONE
    /\ result = NONE
    /\ error = NONE
    /\ calls = [rewrite |-> 1, retrieval |-> 0, agent |-> 1]
    /\ observed = [id \in AllChunkIds |-> NONE]
    /\ UploadIdle
    /\ ChunkerIdle
    /\ ListIdle
    /\ OpsIdle
    /\ ExtractIdle

MergeNext == \E hits \in MergeResults : RetrieveDocumentChunks(hits)

SpecMerge == MergeInit /\ [][MergeNext]_vars

(***************************************************************************)
(* Uploads: uploadDocument, upsertHybridChunks, saveRegistryItem           *)
(***************************************************************************)
NumUploads == 2

Uploads == 1..NumUploads

\* The tenant_id form field: absent or empty, padded, and the word "registry".
TenantInputs == {<<>>, <<WS, "acme">>, <<"registry">>}

\* What the chunker made of the parsed pages: the number of chunks per page.
PageChunkCounts == {<<0>>, <<1, 1>>}

Digits == <<"1", "2", "3", "4", "5", "6", "7", "8", "9">>

\* randomUUID(): a fresh id per upload.
DocumentIdOf(u) == <<"doc-" \o Digits[u]>>

\* params.tenantId?.trim() || DEFAULT_TENANT
TenantOf(raw) == IF Trim(raw) = <<>> THEN DEFAULT_TENANT ELSE Trim(raw)

RECURSIVE SumSeq(_)
SumSeq(sq) == IF sq = <<>> THEN 0 ELSE Head(sq) + SumSeq(Tail(sq))

\* The chunk records createChunksFromPages assembles, page p carrying
\* pages[p] chunks: the id from the page number and the ordinal within the
\* page, chunk_number counted over the whole document.
ChunkRecords(documentId, tenantId, fileName, uploadedAt, pages) ==
    {[namespace |-> buildNamespace(tenantId),
      id        |-> documentId \o <<"#p", Digits[p], "c", Digits[i]>>,
      metadata  |-> [document_id      |-> documentId,
                     tenant_id        |-> tenantId,
                     document_title   |-> fileName,
                     source_file_name |-> fileName,
                     uploaded_at      |-> uploadedAt,
                     page_number      |-> p,
                     chunk_number     |-> SumSeq(SubSeq(pages, 1, p - 1)) + i,
                     chunk_text       |-> <<"text">>]] :
        <<p, i>> \in {pi \in (1..Len(pages)) \X (1..9) : pi[2] <= pages[pi[1]]}}

UploadFileName == <<"a.txt">>

UploadChunks(u) ==
    ChunkRecords(DocumentIdOf(u), TenantOf(upTenant[u]), UploadFileName, upTime[u],
                 upPages[u])

UploadRegistryItem(u) ==
    [documentId |-> DocumentIdOf(u), fileName |-> UploadFileName, uploadedAt |-> upTime[u],
     namespace |-> buildNamespace(TenantOf(upTenant[u])),
     tenantId |-> TenantOf(upTenant[u]), chunkCount |-> SumSeq(upPages[u])]

\* index.fetchByMetadata({namespace, filter: {document_id: {$eq: documentId}}}):
\* the records fetchDocumentChunks collects (every one has metadata).
FetchByMetadata(st, namespace, documentId) ==
    {r \in st : r.namespace = namespace /\ r.metadata.document_id = documentId}

UploadInit ==
    /\ upPc = [u \in Uploads |-> "start"]
    /\ upTenant \in [Uploads -> TenantInputs]
    /\ upTime = [u \in Uploads |-> 0]
    /\ upPages = [u \in Uploads |-> <<>>]
    /\ upAcked = [u \in Uploads |-> FALSE]
    /\ upResult = [u \in Uploads |-> NONE]

UploadFailure(status) == [ok |-> FALSE, status |-> status]

\* uploadDocument up to parseFile: the extension check, the document id and
\* uploadedAt (here the number of uploads that started before, plus one).
UploadStart(u) ==
    /\ upPc[u] = "start"
    /\ \E supported \in BOOLEAN :
          IF supported
          THEN /\ upPc' = [upPc EXCEPT ![u] = "parse"]
               /\ upTime' = [upTime EXCEPT ![u] =
                                1 + Cardinality({v \in Uploads : upPc[v] # "start"})]
               /\ UNCHANGED upResult
          ELSE /\ upPc' = [upPc EXCEPT ![u] = "failed"]
               /\ upResult' = [upResult EXCEPT ![u] = UploadFailure(400)]
               /\ UNCHANGED upTime
    /\ UNCHANGED <<store, askVars, extractVars, chunkerVars, listVars, opVars, upTenant, upPages,
                   upAcked>>

\* parseFile resolves and the chunker runs; zero chunks is the 422 error.
UploadParsed(u) ==
    /\ upPc[u] = "parse"
    /\ \E pages \in PageChunkCounts :
          /\ upPages' = [upPages EXCEPT ![u] = pages]
          /\ IF SumSeq(pages) = 0
             THEN /\ upPc' = [upPc EXCEPT ![u] = "failed"]
                  /\ upResult' = [upResult EXCEPT ![u] = UploadFailure(422)]
             ELSE /\ upPc' = [upPc EXCEPT ![u] = "embedDense"]
                  /\ UNCHANGED upResult
    /\ UNCHANGED <<store, askVars, extractVars, chunkerVars, listVars, opVars, upTenant, upTime,
                   upAcked>>

\* One await of upsertHybridChunks or saveRegistryItem resolves without a
\* store write: the dense embeddings, the sparse embeddings, the settling
\* delay, the embedding of the registry entry.
UploadAwaitNext(at) ==
    CASE at = "embedDense"    -> "embedSparse"
      [] at = "embedSparse"   -> "writeChunks"
      [] at = "settle"        -> "registryEmbed"
      [] at = "registryEmbed" -> "registryWrite"

UploadAwait(u) ==
    /\ upPc[u] \in {"embedDense", "embedSparse", "settle", "registryEmbed"}
    /\ upPc' = [upPc EXCEPT ![u] = UploadAwaitNext(upPc[u])]
    /\ UNCHANGED <<store, askVars, extractVars, chunkerVars, listVars, opVars, upTenant, upTime,
                   upPages, upAcked, upResult>>

\* Mutant: upsertHybridChunks returns as soon as the write is acknowledged.
UploadWriteChunksNoSettle(u) ==
    /\ upPc[u] = "writeChunks"
    /\ store' = store \cup UploadChunks(u)
    /\ upAcked' = [upAcked EXCEPT ![u] = TRUE]
    /\ upPc' = [upPc EXCEPT ![u] = "registryEmbed"]
    /\ UNCHANGED <<askVars, extractVars, chunkerVars, listVars, opVars, upTenant, upTime, upPages,
                   upResult>>

\* index.upsert of all chunk records is acknowledged.
UploadWriteChunks(u) ==
    /\ upPc[u] = "writeChunks"
    /\ store' = store \cup UploadChunks(u)
    /\ upAcked' = [upAcked EXCEPT ![u] = TRUE]
    /\ upPc' = [upPc EXCEPT ![u] = "settle"]
    /\ UNCHANGED <<askVars, extractVars, chunkerVars, listVars, opVars, upTenant, upTime, upPages,
                   upResult>>

\* saveRegistryItem's index.upsert is acknowledged; uploadDocument returns.
UploadSaveRegistry(u) ==
    /\ upPc[u] = "registryWrite"
    /\ store' = store \cup {RegistryRecord(UploadRegistryItem(u))}
    /\ upPc' = [upPc EXCEPT ![u] = "done"]
    /\ upResult' = [upResult EXCEPT ![u] =
                       [ok |-> TRUE, document_id |-> DocumentIdOf(u),
                        chunk_count |-> SumSeq(upPages[u]),
                        namespace |-> buildNamespace(TenantOf(upTenant[u]))]]
    /\ UNCHANGED <<askVars, extractVars, chunkerVars, listVars, opVars, upTenant, upTime, upPages,
                   upAcked>>

\* Mutant: a failed call is swallowed and the upload goes on to the registry.
UploadFailsSwallowed(u) ==
    /\ upPc[u] \in {"parse", "embedDense", "embedSparse", "writeChunks",
                    "registryEmbed", "registryWrite"}
    /\ upPc' = [upPc EXCEPT ![u] =
                   IF upPc[u] = "parse" THEN "failed" ELSE "registryWrite"]
    /\ upResult' = [upResult EXCEPT ![u] =
                       IF upPc[u] = "parse" THEN UploadFailure(500) ELSE @]
    /\ UNCHANGED <<store, askVars, extractVars, chunkerVars, listVars, opVars, upTenant, upTime,
                   upPages, upAcked>>

\* An awaited call rejects (parse, embedding, store write): uploadDocument
\* throws.  A rejected store write may have stored nothing, or any part of
\* what it was given.
UploadFails(u) ==
    /\ upPc[u] \in {"parse", "embedDense", "embedSparse", "writeChunks",
                    "registryEmbed", "registryWrite"}
    /\ upPc' = [upPc EXCEPT ![u] = "failed"]
    /\ upResult' = [upResult EXCEPT ![u] = UploadFailure(500)]
    /\ \/ UNCHANGED store
       \/ /\ upPc[u] = "writeChunks"
          /\ \E part \in SUBSET UploadChunks(u) : part # {} /\ store' = store \cup part
       \/ /\ upPc[u] = "registryWrite"
          /\ store' = store \cup {RegistryRecord(UploadRegistryItem(u))}
    /\ UNCHANGED <<askVars, extractVars, chunkerVars, listVars, opVars, upTenant, upTime, upPages,
                   upAcked>>

\* No ask is in progress.
AskIdle ==
    /\ pc = "idle"
    /\ request = AskRequest(<<>>, NONE, NONE)
    /\ question = <<>>
    /\ context = NONE
    /\ rewriteOutput = NONE
    /\ rewrittenQuery = <<>>
    /\ gatheredSources = <<>>
    /\ structured = NONE
    /\ result = NONE
    /\ error = NONE
    /\ calls = NoCalls
    /\ observed = [id \in AllChunkIds |-> NONE]

UploadSpecInit ==
    /\ store = {}
    /\ AskIdle
    /\ ExtractIdle
    /\ UploadInit
    /\ ChunkerIdle
    /\ ListIdle
    /\ OpsIdle

UploadNext ==
    \E u \in Uploads :
        \/ UploadStart(u)
        \/ UploadParsed(u)
        \/ UploadAwait(u)
        \/ UploadWriteChunks(u)
        \/ UploadSaveRegistry(u)
        \/ UploadFails(u)

SpecUpload == UploadSpecInit /\ [][UploadNext]_vars

(***************************************************************************)
(* Extraction: extractShipmentData and computeExtractionConfidence         *)
(***************************************************************************)
\* The fields of ExtractionSchema, in the order of the extraction object;
\* rate and weight are the numeric ones.
ExtractionFields ==
    <<"shipment_id", "shipper", "consignee", "pickup_datetime", "delivery_datetime",
      "equipment_type", "mode", "rate", "currency", "weight", "carrier_name">>

NumericFields == {"rate", "weight"}

\* A raw field of the model output: null (NONE), a string (Some(tokens)) or a
\* number ([num |-> n]).
toNullableString(value) ==
    IF "some" \notin DOMAIN value THEN NONE
    ELSE IF Len(Trim(value.some)) > 0 THEN Some(Trim(value.some)) ELSE NONE

\* The tokens of a string that value.replace(/[^0-9.-]/g, "") keeps: runs of
\* digits (as decimal numerals) and the minus sign.
DigitRuns == {"7", "12"}

NumeralValue(tok) == IF tok = "7" THEN 7 ELSE 12

Cleaned(tokens) == SelectSeq(tokens, LAMBDA t : t \in DigitRuns \cup {"-"})

\* Number.parseFloat of the cleaned string: an optional minus sign and the
\* digits after it; NaN (here NONE) when no digits follow.
parseFloat(cleaned) ==
    IF cleaned # <<>> /\ Head(cleaned) \in DigitRuns
    THEN [num |-> NumeralValue(Head(cleaned))]
    ELSE IF Len(cleaned) >= 2 /\ Head(cleaned) = "-" /\ cleaned[2] \in DigitRuns
    THEN [num |-> 0 - NumeralValue(cleaned[2])]
    ELSE NONE

toNullableNumber(value) ==
    IF "num" \in DOMAIN value THEN value
    ELSE IF "some" \notin DOMAIN value THEN NONE
    ELSE IF Len(Cleaned(value.some)) = 0 THEN NONE
    ELSE parseFloat(Cleaned(value.some))

\* The extraction object: every field of the output coerced.
Coerce(output) ==
    [f \in {ExtractionFields[i] : i \in 1..Len(ExtractionFields)} |->
        IF f \in NumericFields THEN toNullableNumber(output[f])
        ELSE toNullableString(output[f])]

\* Mutant: the two weights are exchanged.
computeExtractionConfidenceSwapped(extraction, modelConfidence) ==
    LET fields  == DOMAIN extraction
        present == Cardinality({f \in fields : extraction[f] # NONE})
    IN  roundTo3(Frac(35 * modelConfidence, 100),
                 Frac(6500 * present, Cardinality(fields)), Frac(0, 1))

\* roundTo(0.65 * modelConfidence + 0.35 * present / fields.length), the
\* confidences in units of 1e-4.
computeExtractionConfidence(extraction, modelConfidence) ==
    LET fields  == DOMAIN extraction
        present == Cardinality({f \in fields : extraction[f] # NONE})
    IN  roundTo3(Frac(65 * modelConfidence, 100),
                 Frac(3500 * present, Cardinality(fields)), Frac(0, 1))

\* extractShipmentData after the model call returned `output`.
extractShipmentData(output) ==
    LET extraction == Coerce(output)
    IN  [extraction |-> extraction,
         confidence |-> computeExtractionConfidence(extraction,
                                                    output.self_assessed_confidence)]

(***************************************************************************)
(* The extract request: extractShipmentFromDocument                        *)
(***************************************************************************)
ChunkNumberOf(r) ==
    IF "chunk_number" \in DOMAIN r.metadata THEN r.metadata.chunk_number ELSE 0

ChunkTextOf(r) ==
    IF "chunk_text" \in DOMAIN r.metadata THEN r.metadata.chunk_text ELSE <<>>

RECURSIVE SortByChunkNumber(_)
SortByChunkNumber(records) ==
    IF records = {} THEN <<>>
    ELSE LET first == CHOOSE r \in records :
                          \A o \in records : ChunkNumberOf(r) <= ChunkNumberOf(o)
         IN  <<first>> \o SortByChunkNumber(records \ {first})

\* fetchDocumentChunks: every record of the namespace whose document_id
\* matches, as a snippet with score 0, sorted by chunk_number.
fetchDocumentChunks(st, namespace, documentId) ==
    LET sorted == SortByChunkNumber(FetchByMetadata(st, namespace, documentId))
    IN  [i \in 1..Len(sorted) |->
            [id |-> sorted[i].id, score |-> 0, text |-> ChunkTextOf(sorted[i])]]

PARAGRAPH_BREAK == "\n\n"

RECURSIVE JoinTexts(_)
JoinTexts(chunks) ==
    IF chunks = <<>> THEN <<>>
    ELSE IF Len(chunks) = 1 THEN chunks[1].text
    ELSE chunks[1].text \o <<PARAGRAPH_BREAK>> \o JoinTexts(Tail(chunks))

\* String.trim() of a text that may begin or end with line breaks.
RECURSIVE TrimText(_)
TrimText(t) ==
    IF t # <<>> /\ Head(t) \in {WS, PARAGRAPH_BREAK} THEN TrimText(Tail(t))
    ELSE IF t # <<>> /\ t[Len(t)] \in {WS, PARAGRAPH_BREAK}
    THEN TrimText(SubSeq(t, 1, Len(t) - 1))
    ELSE t

\* chunks.map((chunk) => chunk.text).join("\n\n").trim()
SourceText(chunks) == TrimText(JoinTexts(chunks))

\* The records a finished upload leaves: the chunks and the registry entry.
DocumentRecords(documentId, fileName, uploadedAt, tenantId, pages) ==
    ChunkRecords(documentId, tenantId, fileName, uploadedAt, pages)
    \cup {RegistryRecord([documentId |-> documentId, fileName |-> fileName,
                          uploadedAt |-> uploadedAt,
                          namespace |-> buildNamespace(tenantId), tenantId |-> tenantId,
                          chunkCount |-> SumSeq(pages)])}

\* The store the extract finds: d1 and d3 uploaded, d2 registered with its
\* chunk records not readable from the store.
ExtractStore ==
    DocumentRecords(D1, <<"a.txt">>, 1, <<"acme">>, <<1, 1>>)
    \cup {RegistryRecord([documentId |-> D2, fileName |-> <<"b.txt">>, uploadedAt |-> 2,
                          namespace |-> buildNamespace(<<"acme">>),
                          tenantId |-> <<"acme">>, chunkCount |-> 1])}
    \cup DocumentRecords(D3, <<"c.txt">>, 3, <<"globex">>, <<1>>)

ExtractStores == {ExtractStore, {}}

ExtractRequest(d, ds) == [documentId |-> d, documentIds |-> ds]

ExtractRequests ==
    {ExtractRequest(NONE, NONE),
     ExtractRequest(Some(D1), NONE),
     ExtractRequest(Some(D2), NONE),
     ExtractRequest(Some(D9), NONE),
     ExtractRequest(Some(<<>>), NONE),
     ExtractRequest(NONE, Some(<<D3, D1>>)),
     ExtractRequest(NONE, Some(<<D1, D2, D3>>)),
     ExtractRequest(NONE, Some(<<D3, D9>>)),
     ExtractRequest(Some(D9), Some(<<<<WS>> \o D1, <<WS>>, D1>>))}

\* A model output with the first `filled` fields given as `text` or `number`
\* and the others as `noText` or `noNumber`.
Output(filled, text, number, noText, noNumber, confidence) ==
    [f \in {ExtractionFields[i] : i \in 1..Len(ExtractionFields)}
        \cup {"self_assessed_confidence"} |->
        IF f = "self_assessed_confidence" THEN confidence
        ELSE LET i == CHOOSE j \in 1..Len(ExtractionFields) : ExtractionFields[j] = f
             IN  IF i > filled THEN (IF f \in NumericFields THEN noNumber ELSE noText)
                 ELSE IF f \in NumericFields THEN number ELSE text]

\* What the extraction model returns in the pipeline: nothing found, sure of
\* it; everything found, fairly sure.
PipelineOutputs ==
    {Output(0, NONE, NONE, NONE, NONE, 10000),
     Output(11, Some(<<"x">>), [num |-> 7], NONE, NONE, 8000)}

\* Self-assessed confidences: 0, 0.25, 0.5, 0.8 and 1.
ConfidenceLevels == {0, 2500, 5000, 8000, 10000}

\* Model outputs with any number of fields filled: strings plain or padded,
\* numbers as numbers or as strings with a currency sign or a minus sign;
\* missing strings null or blank, missing numbers null or strings without a
\* digit.
AllOutputs ==
    {Output(filled, text, number, noText, noNumber, confidence) :
        filled \in 0..Len(ExtractionFields),
        text \in {Some(<<"x">>), Some(<<WS, "x", WS>>)},
        number \in {[num |-> 7], Some(<<"$", "12">>), Some(<<"-", "7", "kg">>)},
        noText \in {NONE, Some(<<WS>>)},
        noNumber \in {NONE, Some(<<"n/a">>), Some(<<"-">>)},
        confidence \in ConfidenceLevels}

ExtractInit ==
    /\ exPc = "start"
    /\ exRequest \in ExtractRequests
    /\ exIssued = {}
    /\ exIds = <<>>
    /\ exItem = NONE
    /\ exText = <<>>
    /\ exOutput = NONE
    /\ exResults = <<>>
    /\ exResponse = NONE
    /\ exError = NONE

ExtractRawIds(req) ==
    RawIds(IF req.documentIds = NONE THEN <<>> ELSE req.documentIds.some)

\* resolvedIds: the distinct trimmed document_ids, or the one document that
\* resolveDocumentContext resolves document_id (or the latest upload) to.
ExtractResolve ==
    /\ exPc = "start"
    /\ LET rawIds == ExtractRawIds(exRequest)
           single == resolveDocumentContext(store, exRequest.documentId)
       IN  IF Len(rawIds) > 0
           THEN /\ exIds' = Unique(<<>>, rawIds)
                /\ exPc' = "lookup"
                /\ UNCHANGED exError
           ELSE IF single.ok
           THEN /\ exIds' = <<single.documentId>>
                /\ exPc' = "lookup"
                /\ UNCHANGED exError
           ELSE /\ exError' = [status |-> single.status, message |-> single.message]
                /\ exPc' = "failed"
                /\ UNCHANGED exIds
    /\ UNCHANGED <<store, askVars, uploadVars, chunkerVars, listVars, opVars, exRequest, exIssued,
                   exOutput, exItem, exText, exResults, exResponse>>

\* The document the loop is at: the one after those with a result.
CurrentDocument == exIds[Len(exResults) + 1]

\* getRegistryItem of the current document.
ExtractLookup ==
    /\ exPc = "lookup"
    /\ LET registryItem == getRegistryItem(store, CurrentDocument)
       IN  IF registryItem = NONE
           THEN /\ exError' = [status |-> 404, message |-> "Document was not found."]
                /\ exPc' = "failed"
                /\ UNCHANGED exItem
           ELSE /\ exItem' = registryItem
                /\ exPc' = "fetch"
                /\ UNCHANGED exError
    /\ UNCHANGED <<store, askVars, uploadVars, chunkerVars, listVars, opVars, exRequest, exIssued,
                   exOutput, exIds, exText, exResults, exResponse>>

\* fetchDocumentChunks of the current document and the text rebuilt from it.
ExtractFetch ==
    /\ exPc = "fetch"
    /\ exText' = SourceText(fetchDocumentChunks(store, exItem.namespace, CurrentDocument))
    /\ IF Len(exText') = 0
       THEN /\ exError' = [status |-> 404, message |-> "No indexed chunk content found."]
            /\ exPc' = "failed"
       ELSE /\ exPc' = "model"
            /\ UNCHANGED exError
    /\ UNCHANGED <<store, askVars, uploadVars, chunkerVars, listVars, opVars, exRequest, exIssued,
                   exOutput, exIds, exItem, exResults, exResponse>>

\* extractShipmentData returns; the result is pushed; after the last document
\* the response is returned.
ExtractModel(output) ==
    /\ exPc = "model"
    /\ LET data == extractShipmentData(output)
       IN  exResults' = Append(exResults,
                               [document_id |-> CurrentDocument,
                                file_name |-> exItem.fileName,
                                extraction |-> data.extraction,
                                confidence |-> data.confidence])
    /\ IF Len(exResults') = Len(exIds)
       THEN /\ exResponse' = [results |-> exResults', total |-> Len(exResults')]
            /\ exPc' = "done"
       ELSE /\ exPc' = "lookup"
            /\ UNCHANGED exResponse
    /\ exOutput' = output
    /\ UNCHANGED <<store, askVars, uploadVars, chunkerVars, listVars, opVars, exRequest, exIssued,
                   exIds, exItem, exText, exError>>

\* An awaited registry, store or model call rejects.
ExtractFails ==
    /\ \/ exPc \in {"lookup", "fetch", "model"}
       \/ exPc = "start" /\ Len(ExtractRawIds(exRequest)) = 0
    /\ exError' = [status |-> 500, message |-> "upstream"]
    /\ exPc' = "failed"
    /\ UNCHANGED <<store, askVars, uploadVars, chunkerVars, listVars, opVars, exRequest, exIssued,
                   exOutput, exIds, exItem, exText, exResults, exResponse>>

ExtractSpecInit ==
    /\ store \in ExtractStores
    /\ AskIdle
    /\ UploadIdle
    /\ ChunkerIdle
    /\ ListIdle
    /\ OpsIdle
    /\ ExtractInit

ExtractNext ==
    \/ ExtractResolve
    \/ ExtractLookup
    \/ ExtractFetch
    \/ \E output \in PipelineOutputs : ExtractModel(output)
    \/ ExtractFails

SpecExtract == ExtractSpecInit /\ [][ExtractNext]_vars

(***************************************************************************)
(* Two callers side by side: an ask, followed up to the resolution of its  *)
(* scope, and an extract                                                   *)
(***************************************************************************)
FailuresInit ==
    /\ store \in ExtractStores
    /\ AskInit
    /\ UploadIdle
    /\ ChunkerIdle
    /\ ListIdle
    /\ OpsIdle
    /\ ExtractInit

FailuresNext ==
    \/ ValidateQuestion
    \/ ResolveScope
    \/ ExtractNext

SpecFailures == FailuresInit /\ [][FailuresNext]_vars

(***************************************************************************)
(* The extraction of one document, over all model outputs                  *)
(***************************************************************************)
\* extractShipmentFromDocument of d1, its text rebuilt, the model call issued.
ExtractionInit ==
    /\ store = ExtractStore
    /\ AskIdle
    /\ UploadIdle
    /\ ChunkerIdle
    /\ ListIdle
    /\ OpsIdle
    /\ exPc = "model"
    /\ exRequest = ExtractRequest(Some(D1), NONE)
    /\ exIssued = {}
    /\ exIds = <<D1>>
    /\ exItem = getRegistryItem(ExtractStore, D1)
    /\ exText = SourceText(fetchDocumentChunks(ExtractStore, exItem.namespace, D1))
    /\ exOutput = NONE
    /\ exResults = <<>>
    /\ exResponse = NONE
    /\ exError = NONE

ExtractionNext ==
    \/ \E output \in AllOutputs : ExtractModel(output)
    \/ ExtractFails

SpecExtraction == ExtractionInit /\ [][ExtractionNext]_vars

(***************************************************************************)
(* One request, an ask or an extract, against a store no upload is         *)
(* writing to                                                              *)
(***************************************************************************)
RequestsInit ==
    /\ store \in ExtractStores
    /\ UploadIdle
    /\ ChunkerIdle
    /\ ListIdle
    /\ OpsIdle
    /\ \/ AskInit /\ ExtractIdle
       \/ AskIdle /\ ExtractInit

RequestsNext == Next \/ ExtractNext

SpecRequests == RequestsInit /\ [][RequestsNext]_vars

(***************************************************************************)
(* One operation of any kind: an ask, an extract, or uploads               *)
(***************************************************************************)
OperationsInit ==
    \/ RequestsInit
    \/ UploadSpecInit

OperationsNext ==
    \/ Next
    \/ ExtractNext
    \/ upPc # <<>> /\ UploadNext

SpecOperations == OperationsInit /\ [][OperationsNext]_vars

(***************************************************************************)
(* An extract of the latest document, issued while uploads are running     *)
(***************************************************************************)
\* The caller issues an extract without any document id.
ExtractIssue ==
    /\ exPc = "idle"
    /\ exPc' = "start"
    /\ exIssued' = {u \in Uploads : upPc[u] = "done"}
    /\ UNCHANGED <<store, askVars, uploadVars, chunkerVars, listVars, opVars, exRequest, exOutput,
                   exIds, exItem, exText, exResults, exResponse, exError>>

LatestInit ==
    /\ store = {}
    /\ AskIdle
    /\ ExtractIdle
    /\ UploadInit
    /\ ChunkerIdle
    /\ ListIdle
    /\ OpsIdle
    /\ \A u \in Uploads : upTenant[u] = <<WS, "acme">>

LatestNext == UploadNext \/ ExtractIssue \/ ExtractNext

SpecLatest == LatestInit /\ [][LatestNext]_vars

(***************************************************************************)
(* The chunker: splitIntoParagraphs, buildOverlappingChunks and            *)
(* createChunksFromPages.  A page text is a sequence of characters.        *)
(***************************************************************************)
NL == "\n"
CR == "\r"
FF == "\f"

\* What \s matches and trim() removes.
Whitespace == {WS, NL, CR, FF}

DEFAULT_TARGET_CHARS == 1200
DEFAULT_OVERLAP_CHARS == 180

\* input.replace(/\r\n/g, "\n")
RECURSIVE NormalizeNewlines(_)
NormalizeNewlines(s) ==
    IF s = <<>> THEN <<>>
    ELSE IF Len(s) >= 2 /\ s[1] = CR /\ s[2] = NL
         THEN <<NL>> \o NormalizeNewlines(SubSeq(s, 3, Len(s)))
         ELSE <<Head(s)>> \o NormalizeNewlines(Tail(s))

\* String.trim() of a sequence of characters.
RECURSIVE TrimChars(_)
TrimChars(s) ==
    IF s # <<>> /\ Head(s) \in Whitespace THEN TrimChars(Tail(s))
    ELSE IF s # <<>> /\ s[Len(s)] \in Whitespace THEN TrimChars(SubSeq(s, 1, Len(s) - 1))
    ELSE s

RECURSIVE SkipWhile(_, _)
SkipWhile(chars, s) ==
    IF s # <<>> /\ Head(s) \in chars THEN SkipWhile(chars, Tail(s)) ELSE s

\* split(/\n{2,}/): the parts between runs of two or more line feeds.
RECURSIVE SplitOnBlankLines(_, _)
SplitOnBlankLines(part, rest) ==
    IF rest = <<>> THEN <<part>>
    ELSE IF Len(rest) >= 2 /\ rest[1] = NL /\ rest[2] = NL
         THEN <<part>> \o SplitOnBlankLines(<<>>, SkipWhile({NL}, rest))
         ELSE SplitOnBlankLines(Append(part, Head(rest)), Tail(rest))

\* replace(/\s+/g, " ")
RECURSIVE CollapseWhitespace(_)
CollapseWhitespace(s) ==
    IF s = <<>> THEN <<>>
    ELSE IF Head(s) \in Whitespace
         THEN <<WS>> \o CollapseWhitespace(SkipWhile(Whitespace, s))
         ELSE <<Head(s)>> \o CollapseWhitespace(Tail(s))

splitIntoParagraphs(input) ==
    LET normalized == TrimChars(NormalizeNewlines(input))
        parts      == SplitOnBlankLines(<<>>, normalized)
        cleaned    == [i \in 1..Len(parts) |-> TrimChars(CollapseWhitespace(parts[i]))]
    IN  IF normalized = <<>> THEN <<>>
        ELSE SelectSeq(cleaned, LAMBDA part : part # <<>>)

\* String.slice(start) and String.slice(0, end), start and end not negative.
SliceFrom(s, start) == SubSeq(s, start + 1, Len(s))
SliceTo(s, end) == SubSeq(s, 1, Min(end, Len(s)))

\* The loop of buildOverlappingChunks and its final flush.
RECURSIVE BuildLoop(_, _, _, _, _)
BuildLoop(chunks, current, paragraphs, targetChars, overlapChars) ==
    IF paragraphs = <<>>
    THEN IF Len(current) > 0 THEN Append(chunks, current) ELSE chunks
    ELSE LET paragraph == Head(paragraphs)
             candidate == current \o <<NL, NL>> \o paragraph
             overlapText ==
                 TrimChars(SliceFrom(current, Max(0, Len(current) - overlapChars)))
             seeded == IF overlapText # <<>> THEN overlapText \o <<NL, NL>> \o paragraph
                       ELSE paragraph
         IN  IF Len(current) = 0
             THEN BuildLoop(chunks, paragraph, Tail(paragraphs), targetChars, overlapChars)
             ELSE IF Len(candidate) <= targetChars
             THEN BuildLoop(chunks, candidate, Tail(paragraphs), targetChars, overlapChars)
             ELSE IF 2 * Len(seeded) > 3 * targetChars
             THEN BuildLoop(Append(Append(chunks, current), SliceTo(seeded, targetChars)),
                            TrimChars(SliceFrom(seeded, targetChars - overlapChars)),
                            Tail(paragraphs), targetChars, overlapChars)
             ELSE BuildLoop(Append(chunks, current), seeded, Tail(paragraphs),
                            targetChars, overlapChars)

\* Mutant: the buffer left at the end of the page is not flushed.
buildOverlappingChunksNoFlush(paragraphs, targetChars, overlapChars) ==
    IF Len(paragraphs) = 0 THEN <<>>
    ELSE LET chunks == BuildLoop(<<>>, <<>>, paragraphs, targetChars, overlapChars)
         IN  SubSeq(chunks, 1, Len(chunks) - 1)

buildOverlappingChunks(paragraphs, targetChars, overlapChars) ==
    IF Len(paragraphs) = 0 THEN <<>>
    ELSE BuildLoop(<<>>, <<>>, paragraphs, targetChars, overlapChars)

\* The decimal numeral of a positive number below 100.
NumeralOf(n) ==
    IF n < 10 THEN Digits[n]
    ELSE Digits[n \div 10] \o (IF n % 10 = 0 THEN "0" ELSE Digits[n % 10])

\* Mutant: every chunk names the first page of the list.
PageChunksOfFirstPage(params, page, pageChunks, globalChunkNumber) ==
    [pageIndex \in 1..Len(pageChunks) |->
        [id       |-> params.documentId
                          \o <<"#p", NumeralOf(params.pageTexts[1].pageNumber), "c",
                               NumeralOf(pageIndex)>>,
         text     |-> pageChunks[pageIndex],
         metadata |-> [document_id      |-> params.documentId,
                       tenant_id        |-> params.tenantId,
                       document_title   |-> params.fileName,
                       source_file_name |-> params.fileName,
                       uploaded_at      |-> params.uploadedAt,
                       page_number      |-> params.pageTexts[1].pageNumber,
                       chunk_number     |-> globalChunkNumber + pageIndex - 1,
                       chunk_text       |-> pageChunks[pageIndex]]]]

\* The chunk records of one page, globalChunkNumber being the number of the
\* first of them.
PageChunks(params, page, pageChunks, globalChunkNumber) ==
    [pageIndex \in 1..Len(pageChunks) |->
        [id       |-> params.documentId
                          \o <<"#p", NumeralOf(page.pageNumber), "c", NumeralOf(pageIndex)>>,
         text     |-> pageChunks[pageIndex],
         metadata |-> [document_id      |-> params.documentId,
                       tenant_id        |-> params.tenantId,
                       document_title   |-> params.fileName,
                       source_file_name |-> params.fileName,
                       uploaded_at      |-> params.uploadedAt,
                       page_number      |-> page.pageNumber,
                       chunk_number     |-> globalChunkNumber + pageIndex - 1,
                       chunk_text       |-> pageChunks[pageIndex]]]]

\* The loop of createChunksFromPages over the pages.
RECURSIVE PagesLoop(_, _, _, _, _)
PagesLoop(params, pageTexts, targetChars, overlapChars, globalChunkNumber) ==
    IF pageTexts = <<>> THEN <<>>
    ELSE LET page       == Head(pageTexts)
             paragraphs == splitIntoParagraphs(page.text)
             pageChunks == buildOverlappingChunks(paragraphs, targetChars, overlapChars)
         IN  PageChunks(params, page, pageChunks, globalChunkNumber)
                 \o PagesLoop(params, Tail(pageTexts), targetChars, overlapChars,
                              globalChunkNumber + Len(pageChunks))

\* Mutant: the document-global counter starts at 0.
createChunksFromPagesFromZero(params) ==
    LET targetChars  == IF params.targetChars = NONE THEN DEFAULT_TARGET_CHARS
                        ELSE params.targetChars.some
        overlapChars == IF params.overlapChars = NONE THEN DEFAULT_OVERLAP_CHARS
                        ELSE params.overlapChars.some
    IN  PagesLoop(params, params.pageTexts, targetChars, overlapChars, 0)

createChunksFromPages(params) ==
    LET targetChars  == IF params.targetChars = NONE THEN DEFAULT_TARGET_CHARS
                        ELSE params.targetChars.some
        overlapChars == IF params.overlapChars = NONE THEN DEFAULT_OVERLAP_CHARS
                        ELSE params.overlapChars.some
    IN  PagesLoop(params, params.pageTexts, targetChars, overlapChars, 1)

(***************************************************************************)
(* Chunking on its own and as uploadDocument calls it                      *)
(***************************************************************************)
MaxPageLen == 5

\* The characters page texts are made of.
PageChars == {"a", WS, NL, CR}

\* Every page text of at most MaxPageLen characters.
PageTexts == UNION {[1..n -> PageChars] : n \in 0..MaxPageLen}

\* Page texts for lists of two pages: one paragraph, two paragraphs, blank,
\* empty.
SamplePageTexts == {<<"a">>, <<"a", NL, NL, "a", "a">>, <<WS>>, <<>>}

\* Texts of a second page whose letters differ from those of the first: one
\* paragraph, two paragraphs, two words.
OtherPageTexts == {<<"b">>, <<"b", NL, NL, "b", "b">>, <<"b", "b", WS, "b", "b">>}

\* Page lists: none, one page of any text, two pages numbered in order, out
\* of order or alike, the second page with the letters of the first or with
\* letters of its own.
PageLists ==
    {<<>>}
    \cup {<<[pageNumber |-> 1, text |-> t]>> : t \in PageTexts}
    \cup {<<[pageNumber |-> n[1], text |-> t1], [pageNumber |-> n[2], text |-> t2]>> :
             n \in {<<1, 2>>, <<2, 1>>, <<3, 3>>}, t1 \in SamplePageTexts,
             t2 \in SamplePageTexts \cup OtherPageTexts}

\* targetChars and overlapChars: the defaults, or small ones that make short
\* pages overflow.
ChunkSizes ==
    {[targetChars |-> NONE, overlapChars |-> NONE],
     [targetChars |-> Some(3), overlapChars |-> Some(1)],
     [targetChars |-> Some(4), overlapChars |-> Some(2)]}

ChunkerParams(pageTexts, sizes) ==
    [documentId   |-> D1,
     tenantId     |-> <<"acme">>,
     fileName     |-> <<"a.txt">>,
     uploadedAt   |-> 1,
     pageTexts    |-> pageTexts,
     targetChars  |-> sizes.targetChars,
     overlapChars |-> sizes.overlapChars]

\* A file as uploaded: its extension, its text, and what the document parser
\* returns for it (read only when the file is not plain text).
UploadedFile(extension, text, pageTexts, markdownFull) ==
    [extension |-> extension, text |-> text,
     parsed |-> [pageTexts |-> pageTexts, markdownFull |-> markdownFull, textFull |-> <<>>]]

EMPTY_DOCUMENT == <<"(", "e", "m", "p", "t", "y", ")">>

\* Plain-text files of one page, of two pages (a form feed between them) and
\* without text; parsed files of two pages, of no page but with markdown, and
\* with nothing at all.
UploadedFiles ==
    {UploadedFile("txt", <<"a", NL, NL, "b">>, <<>>, <<>>),
     UploadedFile("txt", <<"a", NL, FF, "b">>, <<>>, <<>>),
     UploadedFile("txt", <<"a", NL, NL, FF, NL, NL, "b">>, <<>>, <<>>),
     UploadedFile("txt", <<>>, <<>>, <<>>),
     UploadedFile("pdf", <<>>, <<[pageNumber |-> 1, text |-> <<"a">>],
                                [pageNumber |-> 2, text |-> <<"b", NL, NL, "c">>]>>, <<"a">>),
     UploadedFile("pdf", <<>>, <<>>, <<"a">>),
     UploadedFile("pdf", <<>>, <<>>, <<>>)}

\* parseFile: a plain-text file is one page, numbered 1; any other file is
\* what parseDocumentWithLlamaCloud returns.
parseFile(file) ==
    IF file.extension = "txt"
    THEN [textFull |-> file.text, markdownFull |-> file.text,
          pageTexts |-> <<[pageNumber |-> 1, text |-> file.text]>>]
    ELSE file.parsed

\* uploadDocument: the pages handed to the chunker.
UploadPageTexts(parsed) ==
    LET fallbackText == IF parsed.markdownFull # <<>> THEN parsed.markdownFull
                        ELSE parsed.textFull
    IN  IF Len(parsed.pageTexts) > 0 THEN parsed.pageTexts
        ELSE <<[pageNumber |-> 1,
                text |-> IF fallbackText # <<>> THEN fallbackText ELSE EMPTY_DOCUMENT]>>

\* Either createChunksFromPages is called with any page list, or
\* uploadDocument is about to parse a file.
ChunkerInit ==
    /\ \/ /\ ckPc = "start"
          /\ ckFile = NONE
          /\ \E pageTexts \in PageLists, sizes \in ChunkSizes :
                ckParams = ChunkerParams(pageTexts, sizes)
       \/ /\ ckPc = "parse"
          /\ \E file \in UploadedFiles : ckFile = Some(file)
          /\ ckParams = NONE
    /\ ckChunks = <<>>
    /\ BuildIdle

\* uploadDocument from parseFile to the call of createChunksFromPages.
UploadParse ==
    /\ ckPc = "parse"
    /\ ckParams' = ChunkerParams(UploadPageTexts(parseFile(ckFile.some)),
                                 [targetChars |-> NONE, overlapChars |-> NONE])
    /\ ckPc' = "start"
    /\ UNCHANGED <<store, askVars, uploadVars, extractVars, listVars, opVars, ckFile, ckChunks,
                   buildVars>>

\* createChunksFromPages returns.
ChunkPages ==
    /\ ckPc = "start"
    /\ ckChunks' = createChunksFromPages(ckParams)
    /\ ckPc' = "done"
    /\ UNCHANGED <<store, askVars, uploadVars, extractVars, listVars, opVars, ckFile, ckParams,
                   buildVars>>

ChunkerSpecInit ==
    /\ store = {}
    /\ AskIdle
    /\ UploadIdle
    /\ ExtractIdle
    /\ ListIdle
    /\ OpsIdle
    /\ ChunkerInit

ChunkerNext == UploadParse \/ ChunkPages

SpecChunker == ChunkerSpecInit /\ [][ChunkerNext]_vars

(***************************************************************************)
(* An upload from the parsed file to the store: parseFile, the chunker, the *)
(* zero-chunk check, upsertHybridChunks and saveRegistryItem               *)
(***************************************************************************)
\* toPageText: the pages of the parser's result with a positive page number
\* and a text that is not blank, the text trimmed.
toPageText(pages) ==
    LET mapped == [i \in 1..Len(pages) |->
                      [pageNumber |-> pages[i].pageNumber, text |-> TrimChars(pages[i].text)]]
    IN  SelectSeq(mapped, LAMBDA page : page.pageNumber > 0 /\ page.text # <<>>)

\* What the parser may return as pages: none, blank ones, pages numbered in
\* order, alike, or from zero.
ParserPages ==
    {<<>>}
    \cup {<<[pageNumber |-> n[1], text |-> t1], [pageNumber |-> n[2], text |-> t2]>> :
             n \in {<<1, 2>>, <<3, 3>>, <<0, 1>>},
             t1 \in SamplePageTexts, t2 \in SamplePageTexts \cup OtherPageTexts}

\* Uploaded files: those of UploadedFiles, plain-text files of every short
\* text, and parsed files of the parser's pages, with and without markdown.
IngestFiles ==
    UploadedFiles
    \cup {UploadedFile("txt", t, <<>>, <<>>) : t \in PageTexts}
    \cup {UploadedFile("pdf", <<>>, toPageText(pages), md) :
             pages \in ParserPages, md \in {<<>>, <<"m">>}}

\* index.upsert of the chunk records: the store keeps one record per id, so
\* of several chunks with one id one is left.
UpsertOutcomes(st, namespace, chunks) ==
    LET ids  == {chunks[i].id : i \in 1..Len(chunks)}
        kept == {r \in st : r.namespace # namespace \/ r.id \notin ids}
    IN  {kept \cup {[namespace |-> namespace, id |-> chunks[pick[id]].id,
                     metadata |-> chunks[pick[id]].metadata] : id \in ids} :
            pick \in {f \in [ids -> 1..Len(chunks)] : \A id \in ids : chunks[f[id]].id = id}}

\* uploadDocument after createChunksFromPages: no chunks is the 422 error;
\* otherwise the chunks are upserted, the registry entry is saved with
\* chunkCount = chunks.length, and the upload returns.
IngestChunks ==
    /\ ckPc = "done"
    /\ ckFile # NONE
    /\ IF Len(ckChunks) = 0
       THEN /\ ckPc' = "rejected"
            /\ UNCHANGED store
       ELSE /\ ckPc' = "stored"
            /\ \E written \in UpsertOutcomes(store, buildNamespace(ckParams.tenantId),
                                             ckChunks) :
                  store' = written
                      \cup {RegistryRecord([documentId |-> ckParams.documentId,
                                            fileName   |-> ckParams.fileName,
                                            uploadedAt |-> ckParams.uploadedAt,
                                            namespace  |-> buildNamespace(ckParams.tenantId),
                                            tenantId   |-> ckParams.tenantId,
                                            chunkCount |-> Len(ckChunks)])}
    /\ UNCHANGED <<askVars, uploadVars, extractVars, listVars, opVars, ckFile, ckParams,
                   ckChunks, buildVars>>

IngestInit ==
    /\ store = {}
    /\ AskIdle
    /\ UploadIdle
    /\ ExtractIdle
    /\ ListIdle
    /\ OpsIdle
    /\ ckPc = "parse"
    /\ \E file \in IngestFiles : ckFile = Some(file)
    /\ ckParams = NONE
    /\ ckChunks = <<>>
    /\ BuildIdle

IngestNext == UploadParse \/ ChunkPages \/ IngestChunks

SpecIngest == IngestInit /\ [][IngestNext]_vars

(***************************************************************************)
(* buildOverlappingChunks followed paragraph by paragraph                  *)
(***************************************************************************)
MaxTargetChars == 6

\* Page texts whose letters all differ: three paragraphs the last of which
\* is long, a long paragraph of three words after a short one, one long
\* paragraph alone, and two paragraphs with a padded blank line between.
BuildTexts ==
    {<<"a", "b", NL, NL, "c", "d", NL, NL, "e", "f", "g", "h", "i", "j", "k">>,
     <<"a", "b", NL, NL, "c", "d", WS, "e", "f", WS, "g", "h">>,
     <<"a", "b", "c", "d", "e", "f", "g", "h", "i", "j">>,
     <<"a", "b", WS, "c", NL, WS, NL, "d", WS, WS, "e", "f", "g", "h", "i", NL>>}

\* targetChars >= overlapChars >= 0.
BuildSizes ==
    {sizes \in [targetChars : 0..MaxTargetChars, overlapChars : 0..MaxTargetChars] :
        sizes.overlapChars <= sizes.targetChars}

\* Mutant: the separator is not counted when the candidate is measured.
AddParagraphUncounted(chunks, current, paragraph, targetChars, overlapChars) ==
    LET candidate == current \o <<NL, NL>> \o paragraph
        overlapText ==
            TrimChars(SliceFrom(current, Max(0, Len(current) - overlapChars)))
        seeded == IF overlapText # <<>> THEN overlapText \o <<NL, NL>> \o paragraph
                  ELSE paragraph
    IN  IF Len(current) = 0
        THEN [chunks |-> chunks, current |-> paragraph]
        ELSE IF Len(current) + Len(paragraph) <= targetChars
        THEN [chunks |-> chunks, current |-> candidate]
        ELSE IF 2 * Len(seeded) > 3 * targetChars
        THEN [chunks  |-> Append(Append(chunks, current), SliceTo(seeded, targetChars)),
              current |-> TrimChars(SliceFrom(seeded, targetChars - overlapChars))]
        ELSE [chunks |-> Append(chunks, current), current |-> seeded]

\* Mutant: after a hard split the buffer continues overlapChars after the
\* cut instead of before it.
AddParagraphPastCut(chunks, current, paragraph, targetChars, overlapChars) ==
    LET candidate == current \o <<NL, NL>> \o paragraph
        overlapText ==
            TrimChars(SliceFrom(current, Max(0, Len(current) - overlapChars)))
        seeded == IF overlapText # <<>> THEN overlapText \o <<NL, NL>> \o paragraph
                  ELSE paragraph
    IN  IF Len(current) = 0
        THEN [chunks |-> chunks, current |-> paragraph]
        ELSE IF Len(candidate) <= targetChars
        THEN [chunks |-> chunks, current |-> candidate]
        ELSE IF 2 * Len(seeded) > 3 * targetChars
        THEN [chunks  |-> Append(Append(chunks, current), SliceTo(seeded, targetChars)),
              current |-> TrimChars(SliceFrom(seeded, targetChars + overlapChars))]
        ELSE [chunks |-> Append(chunks, current), current |-> seeded]

\* One pass of the loop of buildOverlappingChunks: the chunk list and the
\* buffer after `paragraph` was taken.
AddParagraph(chunks, current, paragraph, targetChars, overlapChars) ==
    LET candidate == current \o <<NL, NL>> \o paragraph
        overlapText ==
            TrimChars(SliceFrom(current, Max(0, Len(current) - overlapChars)))
        seeded == IF overlapText # <<>> THEN overlapText \o <<NL, NL>> \o paragraph
                  ELSE paragraph
    IN  IF Len(current) = 0
        THEN [chunks |-> chunks, current |-> paragraph]
        ELSE IF Len(candidate) <= targetChars
        THEN [chunks |-> chunks, current |-> candidate]
        ELSE IF 2 * Len(seeded) > 3 * targetChars
        THEN [chunks  |-> Append(Append(chunks, current), SliceTo(seeded, targetChars)),
              current |-> TrimChars(SliceFrom(seeded, targetChars - overlapChars))]
        ELSE [chunks |-> Append(chunks, current), current |-> seeded]

\* buildOverlappingChunks is called with the paragraphs of a page.
BuildInit ==
    /\ bdPc = "loop"
    /\ \E text \in BuildTexts \cup SamplePageTexts \cup OtherPageTexts, sizes \in BuildSizes :
          /\ bdParams = [text |-> text, paragraphs |-> splitIntoParagraphs(text),
                         targetChars |-> sizes.targetChars,
                         overlapChars |-> sizes.overlapChars]
    /\ bdRest = bdParams.paragraphs
    /\ bdCurrent = <<>>
    /\ bdChunks = <<>>

\* The loop takes the next paragraph.
BuildParagraph ==
    /\ bdPc = "loop"
    /\ bdRest # <<>>
    /\ LET next == AddParagraph(bdChunks, bdCurrent, Head(bdRest), bdParams.targetChars,
                                bdParams.overlapChars)
       IN  /\ bdChunks' = next.chunks
           /\ bdCurrent' = next.current
    /\ bdRest' = Tail(bdRest)
    /\ UNCHANGED <<store, askVars, uploadVars, extractVars, listVars, opVars, ckPc, ckFile,
                   ckParams, ckChunks, bdPc, bdParams>>

\* The loop is over: what is left in the buffer is pushed, and the chunk
\* list is returned.
BuildFlush ==
    /\ bdPc = "loop"
    /\ bdRest = <<>>
    /\ bdChunks' = IF Len(bdCurrent) > 0 THEN Append(bdChunks, bdCurrent) ELSE bdChunks
    /\ bdPc' = "done"
    /\ UNCHANGED <<store, askVars, uploadVars, extractVars, listVars, opVars, ckPc, ckFile,
                   ckParams, ckChunks, bdParams, bdRest, bdCurrent>>

BuildSpecInit ==
    /\ store = {}
    /\ AskIdle
    /\ UploadIdle
    /\ ExtractIdle
    /\ ListIdle
    /\ OpsIdle
    /\ ckPc = "idle"
    /\ ckFile = NONE
    /\ ckParams = NONE
    /\ ckChunks = <<>>
    /\ BuildInit

BuildNext == BuildParagraph \/ BuildFlush

SpecBuild == BuildSpecInit /\ [][BuildNext]_vars

(***************************************************************************)
(* Listing the registry: listRegistryIds, fetchRegistryItemsByIds,         *)
(* listRegistryItems and getLatestDocumentId, page by page                 *)
(***************************************************************************)
FETCH_BATCH_SIZE == 100

D4 == <<"d4">>

\* The registry entries uploads may have left: d3 and d4 were uploaded at
\* the same time.
ListEntries ==
    {RegistryRecord([documentId |-> d[1], fileName |-> <<"a.txt">>, uploadedAt |-> d[2],
                     namespace |-> buildNamespace(<<"acme">>), tenantId |-> <<"acme">>,
                     chunkCount |-> 1]) :
        d \in {<<D1, 1>>, <<D2, 2>>, <<D3, 3>>, <<D4, 3>>}}

\* The chunks of an upload with tenant_id "registry": they are in the
\* namespace of the registry.
StrayChunks == ChunkRecords(D9, <<"registry">>, <<"a.txt">>, 4, <<1>>)

\* The stores a listing reads: any of the entries, with or without chunks in
\* the registry namespace.
ListStores == {entries \cup chunks : entries \in SUBSET ListEntries,
                                      chunks \in {{}, StrayChunks}}

\* The ids index.listPaginated yields in all: the ids of the namespace that
\* begin with the prefix.
ListedIds(st, namespace) ==
    {r.id : r \in {x \in st : /\ x.namespace = namespace
                              /\ Len(x.id) >= 1
                              /\ x.id[1] = REGISTRY_ID_PREFIX[1]}}

\* A set of ids as the store orders them in a page.
RECURSIVE PageOf(_)
PageOf(ids) ==
    IF ids = {} THEN <<>>
    ELSE LET first == CHOOSE id \in ids : TRUE
         IN  <<first>> \o PageOf(ids \ {first})

RECURSIVE Flatten(_)
Flatten(pages) == IF pages = <<>> THEN <<>> ELSE Head(pages) \o Flatten(Tail(pages))

\* The orders in which index.fetch may return the records of its batches:
\* the permutations of the ids that keep every id within its batch of 100.
FetchOrders(n) ==
    {f \in [1..n -> 1..n] :
        /\ \A i, j \in 1..n : f[i] = f[j] => i = j
        /\ \A i \in 1..n : (f[i] - 1) \div FETCH_BATCH_SIZE = (i - 1) \div FETCH_BATCH_SIZE}

\* fetchRegistryItemsByIds: the mapped items of the records found, in the
\* order the store returned them.
RECURSIVE fetchRegistryItemsByIds(_, _, _)
fetchRegistryItemsByIds(st, registryIds, namespace) ==
    IF registryIds = <<>> THEN <<>>
    ELSE LET record == FetchRecord(st, namespace, Head(registryIds))
             mapped == IF record = NONE THEN NONE ELSE toRegistryItem(record.metadata)
         IN  (IF mapped = NONE THEN <<>> ELSE <<mapped>>)
                 \o fetchRegistryItemsByIds(st, Tail(registryIds), namespace)

\* Array.sort by b.uploadedAt.localeCompare(a.uploadedAt): stable, newest
\* first.
RECURSIVE SortByUploadedAtDesc(_, _)
SortByUploadedAtDesc(sorted, rest) ==
    IF rest = <<>> THEN sorted
    ELSE LET item == Head(rest)
             k    == Cardinality({i \in 1..Len(sorted) : sorted[i].uploadedAt >= item.uploadedAt})
         IN  SortByUploadedAtDesc(SubSeq(sorted, 1, k) \o <<item>>
                                      \o SubSeq(sorted, k + 1, Len(sorted)),
                                  Tail(rest))

\* Mutant: the items are returned in the order they were fetched.
SortItemsNot(items) == items

SortItems(items) == SortByUploadedAtDesc(<<>>, items)

ListInit ==
    /\ lsPc = "list"
    /\ lsCaller \in {"listRegistryItems", "getLatestDocumentId"}
    /\ lsPending = {}
    /\ lsPages = <<>>
    /\ lsItems = <<>>
    /\ lsResult = NONE

\* listRegistryIds: one index.listPaginated call.  The first call has no
\* token; a later one continues where the token points.  The store decides
\* how many ids a page holds.
ListPage ==
    /\ lsPc \in {"list", "page"}
    /\ LET pending == IF lsPc = "list" THEN ListedIds(store, getRegistryNamespace)
                      ELSE lsPending
       IN  \E page \in SUBSET pending :
              /\ pending # {} => page # {}
              /\ lsPages' = Append(lsPages, PageOf(page))
              /\ lsPending' = pending \ page
              /\ lsPc' = IF pending \ page = {} THEN "fetch" ELSE "page"
    /\ UNCHANGED <<store, askVars, uploadVars, extractVars, chunkerVars, opVars, lsCaller, lsItems,
                   lsResult>>

\* fetchRegistryItemsByIds, then the sort of listRegistryItems; the caller
\* gets the list, or getLatestDocumentId its first document id.
ListFetch ==
    /\ lsPc = "fetch"
    /\ LET ids == Flatten(lsPages)
       IN  \E order \in FetchOrders(Len(ids)) :
              LET fetched == fetchRegistryItemsByIds(store,
                                 [i \in 1..Len(ids) |-> ids[order[i]]], getRegistryNamespace)
                  items   == SortItems(fetched)
              IN  /\ lsItems' = items
                  /\ lsResult' =
                         IF lsCaller = "listRegistryItems" THEN Some(items)
                         ELSE IF items = <<>> THEN NONE
                         ELSE Some(items[1].documentId)
    /\ lsPc' = "done"
    /\ UNCHANGED <<store, askVars, uploadVars, extractVars, chunkerVars, opVars, lsCaller,
                   lsPending,
                   lsPages>>

ListSpecInit ==
    /\ store \in ListStores
    /\ AskIdle
    /\ UploadIdle
    /\ ExtractIdle
    /\ ChunkerIdle
    /\ ListInit
    /\ OpsIdle

ListNext == ListPage \/ ListFetch

SpecList == ListSpecInit /\ [][ListNext]_vars

(***************************************************************************)
(* fetchDocumentChunks, page by page                                       *)
(***************************************************************************)
DEFAULT_PAGE_SIZE == 200

\* The store a fetch reads: d1 with three chunks on two pages, d2 registered
\* without chunks, d3 of another tenant, d4 of the tenant "registry".
FetchStore ==
    DocumentRecords(D1, <<"a.txt">>, 1, <<"acme">>, <<2, 1>>)
    \cup {RegistryRecord([documentId |-> D2, fileName |-> <<"b.txt">>, uploadedAt |-> 2,
                          namespace |-> buildNamespace(<<"acme">>),
                          tenantId |-> <<"acme">>, chunkCount |-> 1])}
    \cup DocumentRecords(D3, <<"c.txt">>, 3, <<"globex">>, <<1>>)
    \cup DocumentRecords(D4, <<"d.txt">>, 4, <<"registry">>, <<1>>)

\* The calls: each document in its namespace, with the default page size
\* and with page sizes that split d1.
FetchCalls ==
    {[namespace |-> buildNamespace(d[2]), documentId |-> d[1], pageSize |-> size] :
        d \in {<<D1, <<"acme">>>>, <<D2, <<"acme">>>>, <<D4, <<"registry">>>>},
        size \in {NONE, Some(1), Some(2)}}

\* A record as the snippet fetchDocumentChunks collects.
SnippetOf(r) ==
    [id |-> r.id, score |-> 0, text |-> ChunkTextOf(r), metadata |-> r.metadata]

\* The orders of n records in a response.
Orders(n) == {f \in [1..n -> 1..n] : \A i, j \in 1..n : f[i] = f[j] => i = j}

\* Array.sort by Number(chunk_number ?? 0), ascending and stable.
RECURSIVE SortByChunkNumberAsc(_, _)
SortByChunkNumberAsc(sorted, rest) ==
    IF rest = <<>> THEN sorted
    ELSE LET item == Head(rest)
             k    == Cardinality({i \in 1..Len(sorted) :
                                     ChunkNumberOf(sorted[i]) <= ChunkNumberOf(item)})
         IN  SortByChunkNumberAsc(SubSeq(sorted, 1, k) \o <<item>>
                                      \o SubSeq(sorted, k + 1, Len(sorted)),
                                  Tail(rest))

\* Mutant: the snippets are returned as collected.
SortCollectedNot(collected) == collected

SortCollected(collected) == SortByChunkNumberAsc(<<>>, collected)

FetchInit ==
    /\ fcPc = "fetch"
    /\ fcParams \in FetchCalls
    /\ fcPending = {}
    /\ fcCollected = <<>>
    /\ fcPages = 0
    /\ fcResult = NONE

\* One turn of the loop of fetchDocumentChunks: index.fetchByMetadata
\* returns at most pageSize records in an order of its own, with a
\* continuation token or without; without one the call sorts and returns.
FetchPage ==
    /\ fcPc \in {"fetch", "page"}
    /\ LET pending == IF fcPc = "fetch"
                      THEN FetchByMetadata(store, fcParams.namespace, fcParams.documentId)
                      ELSE fcPending
           limit   == IF fcParams.pageSize = NONE THEN DEFAULT_PAGE_SIZE
                      ELSE fcParams.pageSize.some
       IN  \E page \in SUBSET pending, more \in BOOLEAN :
              /\ Cardinality(page) <= limit
              /\ pending # {} => page # {}
              /\ pending \ page # {} => more
              /\ pending = {} => ~more
              /\ \E order \in Orders(Cardinality(page)) :
                    LET records   == PageOf(page)
                        collected ==
                            fcCollected
                                \o [i \in 1..Len(records) |-> SnippetOf(records[order[i]])]
                    IN  /\ fcCollected' = collected
                        /\ fcResult' = IF more THEN NONE ELSE Some(SortCollected(collected))
              /\ fcPending' = pending \ page
              /\ fcPc' = IF more THEN "page" ELSE "done"
    /\ fcPages' = fcPages + 1
    /\ UNCHANGED <<store, askVars, uploadVars, extractVars, chunkerVars, listVars, queryVars,
                   inFlight, fcParams>>

FetchSpecInit ==
    /\ store = FetchStore
    /\ AskIdle
    /\ UploadIdle
    /\ ExtractIdle
    /\ ChunkerIdle
    /\ ListIdle
    /\ qyPc = "idle" /\ qyParams = NONE /\ qyRequest = NONE /\ qyResult = NONE
    /\ inFlight = {}
    /\ FetchInit

FetchNext == FetchPage

SpecFetch == FetchSpecInit /\ [][FetchNext]_vars

(***************************************************************************)
(* queryHybrid: the filter it sends and the matches it keeps               *)
(***************************************************************************)
DEFAULT_TOP_K == 8
MaxMatches == 2

\* The calls: with and without document_id (also the empty string), with
\* and without document_ids (also the empty list).
QueryCalls ==
    {[query |-> <<"q">>, namespace |-> buildNamespace(<<"acme">>),
      documentId |-> d, documentIds |-> ds, topK |-> k] :
        d \in {NONE, Some(D1), Some(<<>>)},
        ds \in {NONE, Some(<<>>), Some(<<D1>>), Some(<<D3, D1>>)},
        k \in {NONE, Some(TOP_K_PER_TOOL_CALL)}}

\* Mutant: document_id takes precedence over document_ids.
QueryFilterSingleFirst(params) ==
    IF params.documentId # NONE /\ params.documentId.some # <<>>
    THEN Some([document_id |-> [eq |-> params.documentId.some]])
    ELSE IF params.documentIds # NONE /\ Len(params.documentIds.some) > 0
    THEN Some([document_id |-> [in |-> params.documentIds.some]])
    ELSE NONE

\* The filter of queryHybrid: $in over documentIds, else $eq on documentId,
\* else undefined.
QueryFilter(params) ==
    IF params.documentIds # NONE /\ Len(params.documentIds.some) > 0
    THEN Some([document_id |-> [in |-> params.documentIds.some]])
    ELSE IF params.documentId # NONE /\ params.documentId.some # <<>>
    THEN Some([document_id |-> [eq |-> params.documentId.some]])
    ELSE NONE

\* The index.query request: the filter key is there only with a filter.
QueryRequest(params) ==
    LET filter == QueryFilter(params)
        base   == [namespace |-> params.namespace,
                   topK |-> IF params.topK = NONE THEN DEFAULT_TOP_K ELSE params.topK.some,
                   includeMetadata |-> TRUE,
                   includeValues |-> FALSE]
    IN  IF filter = NONE THEN base
        ELSE [f \in DOMAIN base \cup {"filter"} |->
                 IF f = "filter" THEN filter.some ELSE base[f]]

\* Whether a record satisfies the filter of a request.
Satisfies(r, req) ==
    \/ "filter" \notin DOMAIN req
    \/ /\ "in" \in DOMAIN req.filter.document_id
       /\ \E i \in 1..Len(req.filter.document_id.in) :
             r.metadata.document_id = req.filter.document_id.in[i]
    \/ /\ "eq" \in DOMAIN req.filter.document_id
       /\ r.metadata.document_id = req.filter.document_id.eq

\* The matches the store may return for a record: whole, with a score that
\* rounds up or with no score, or lacking the id or the metadata.
MatchesOf(r) ==
    {[id |-> Some(r.id), score |-> Some(Frac(850049, 100)), metadata |-> Some(r.metadata)],
     [id |-> Some(r.id), score |-> Some(Frac(85005, 10)), metadata |-> Some(r.metadata)],
     [id |-> Some(r.id), score |-> NONE, metadata |-> Some(r.metadata)],
     [id |-> NONE, score |-> Some(Frac(9000, 1)), metadata |-> Some(r.metadata)],
     [id |-> Some(r.id), score |-> Some(Frac(9000, 1)), metadata |-> NONE]}

\* The responses of index.query: at most MaxMatches matches (and at most
\* topK), of different records of the namespace that satisfy the filter.
QueryResponses(st, req) ==
    LET records == {r \in st : r.namespace = req.namespace /\ Satisfies(r, req)}
        matches == UNION {MatchesOf(r) : r \in records}
    IN  {m \in UNION {[1..n -> matches] : n \in 0..Min(MaxMatches, req.topK)} :
            \A i, j \in 1..Len(m) : i # j => m[i].metadata # m[j].metadata
                                              \/ m[i].id # m[j].id}

\* queryResponse.matches.map(...).filter(...): the matches that have an id
\* and metadata, as snippets with the score rounded to four decimals.
KeepMatches(matches) ==
    LET kept == SelectSeq(matches, LAMBDA m : m.id # NONE /\ m.id.some # <<>>
                                                /\ m.metadata # NONE)
    IN  [i \in 1..Len(kept) |->
            [id       |-> kept[i].id.some,
             score    |-> IF kept[i].score = NONE THEN 0
                          ELSE roundTo3(kept[i].score.some, Frac(0, 1), Frac(0, 1)),
             text     |-> ChunkTextOf([metadata |-> kept[i].metadata.some]),
             metadata |-> kept[i].metadata]]

QueryInit ==
    /\ qyPc = "embedDense"
    /\ qyParams \in QueryCalls
    /\ qyRequest = NONE
    /\ qyResult = NONE

\* embedDenseBatch returns; embedSparseBatch is called.
QueryEmbedDense ==
    /\ qyPc = "embedDense"
    /\ qyPc' = "embedSparse"
    /\ UNCHANGED <<store, askVars, uploadVars, extractVars, chunkerVars, listVars, fetchVars,
                   inFlight, qyParams, qyRequest, qyResult>>

\* embedSparseBatch returns; the filter is built and index.query is called.
QueryEmbedSparse ==
    /\ qyPc = "embedSparse"
    /\ qyRequest' = Some(QueryRequest(qyParams))
    /\ qyPc' = "query"
    /\ UNCHANGED <<store, askVars, uploadVars, extractVars, chunkerVars, listVars, fetchVars,
                   inFlight, qyParams, qyResult>>

\* index.query returns; queryHybrid returns the matches it keeps.
QueryReturn ==
    /\ qyPc = "query"
    /\ \E matches \in QueryResponses(store, qyRequest.some) :
          qyResult' = [matches |-> matches, sources |-> KeepMatches(matches)]
    /\ qyPc' = "done"
    /\ UNCHANGED <<store, askVars, uploadVars, extractVars, chunkerVars, listVars, fetchVars,
                   inFlight, qyParams, qyRequest>>

\* An embedding call or index.query rejects.
QueryFails ==
    /\ qyPc \in {"embedDense", "embedSparse", "query"}
    /\ qyPc' = "failed"
    /\ UNCHANGED <<store, askVars, uploadVars, extractVars, chunkerVars, listVars, fetchVars,
                   inFlight, qyParams, qyRequest, qyResult>>

QuerySpecInit ==
    /\ store = FetchStore
    /\ AskIdle
    /\ UploadIdle
    /\ ExtractIdle
    /\ ChunkerIdle
    /\ ListIdle
    /\ fcPc = "idle" /\ fcParams = NONE /\ fcPending = {} /\ fcCollected = <<>>
    /\ fcPages = 0 /\ fcResult = NONE
    /\ inFlight = {}
    /\ QueryInit

QueryNext == QueryEmbedDense \/ QueryEmbedSparse \/ QueryReturn \/ QueryFails

SpecQuery == QuerySpecInit /\ [][QueryNext]_vars

(***************************************************************************)
(* The confidence over pools whose top score spans 0 .. 3.0                *)
(***************************************************************************)
\* Top scores from 0 to beyond the 2.5 at which the retrieval signal
\* saturates.
TopScoreLevels == {0, 5000, 10000, 20000, 25000, 30000}

\* Results of one or two matches: the second score is zero, half of the first
\* or equal to it.
ConfidenceResults ==
    {<<Snippet(1, t)>> : t \in TopScoreLevels}
    \cup {<<Snippet(1, t), Snippet(2, s)>> :
            t \in TopScoreLevels, s \in {0, 5000, 10000, 12500, 20000, 25000}}

ConfidenceInit ==
    /\ MergeInit

ConfidenceNext ==
    \/ \E hits \in ConfidenceResults : RetrieveDocumentChunks(hits)
    \/ Answer

SpecConfidence == ConfidenceInit /\ [][ConfidenceNext]_vars

(***************************************************************************)
(* The retrieval tool as the agent runs it: the handler is entered, awaits *)
(* queryHybrid, and merges when queryHybrid has returned                   *)
(***************************************************************************)
\* An external call awaiting its result: the operation and its number
\* within the request.
Call(op, n) == [op |-> op, n |-> n]

\* The agent enters the tool handler for one tool call of the controller:
\* queryHybrid is called.  The handler keeps no lock and the agent is given
\* no limit on the tool calls of one turn.
ToolIssue ==
    /\ pc = "agent"
    /\ calls.retrieval < MaxRetrievals
    /\ calls' = [calls EXCEPT !.retrieval = @ + 1]
    /\ inFlight' = inFlight \cup {Call("queryHybrid", calls.retrieval + 1)}
    /\ UNCHANGED <<store, pc, request, question, context, rewriteOutput, rewrittenQuery,
                   gatheredSources, structured, result, error, observed, uploadVars,
                   extractVars, chunkerVars, listVars, fetchVars, queryVars>>

\* Mutant: the handler merges the result into the pool as it was when the
\* run began, and the splice replaces the pool with that.
ToolReturnStale(hits) ==
    /\ pc = "agent"
    /\ \E c \in inFlight :
          /\ c.op = "queryHybrid"
          /\ inFlight' = inFlight \ {c}
    /\ gatheredSources' = mergeSources(<<>>, hits, MAX_SOURCES_IN_STATE)
    /\ observed' = Observe(observed, hits)
    /\ UNCHANGED <<store, pc, request, question, context, rewriteOutput, rewrittenQuery,
                   structured, result, error, calls, uploadVars, extractVars, chunkerVars,
                   listVars, fetchVars, queryVars>>

\* queryHybrid returns to a handler: mergeSources and the splice run without
\* a suspension point between them.
ToolReturn(hits) ==
    /\ pc = "agent"
    /\ \E c \in inFlight :
          /\ c.op = "queryHybrid"
          /\ inFlight' = inFlight \ {c}
    /\ gatheredSources' = mergeSources(gatheredSources, hits, MAX_SOURCES_IN_STATE)
    /\ observed' = Observe(observed, hits)
    /\ UNCHANGED <<store, pc, request, question, context, rewriteOutput, rewrittenQuery,
                   structured, result, error, calls, uploadVars, extractVars, chunkerVars,
                   listVars, fetchVars, queryVars>>

\* agent.invoke resolves: every tool call of the run has returned.
ToolAnswer ==
    /\ inFlight = {}
    /\ Answer

ToolsNext ==
    \/ ToolIssue
    \/ \E hits \in QueryResults : ToolReturn(hits)
    \/ ToolAnswer

SpecTools == MergeInit /\ [][ToolsNext]_vars

(***************************************************************************)
(* Scope resolution of an ask with its registry calls in flight            *)
(***************************************************************************)
\* uniqueIds of resolveAskContext.
ScopeIds(params) ==
    Unique(<<>>, RawIds(IF params.documentIds = NONE THEN <<>> ELSE params.documentIds.some))

\* Promise.all(uniqueIds.map((id) => getRegistryItem(id))): getRegistryItem
\* is called for every id before any of the calls is awaited.
ScopeIssue ==
    /\ pc = "resolve"
    /\ Len(ScopeIds(request)) > 0
    /\ inFlight' = {Call("getRegistryItem", i) : i \in 1..Len(ScopeIds(request))}
    /\ pc' = "resolving"
    /\ UNCHANGED <<store, request, question, context, rewriteOutput, rewrittenQuery,
                   gatheredSources, structured, result, error, calls, observed, uploadVars,
                   extractVars, chunkerVars, listVars, fetchVars, queryVars>>

\* One of the registry fetches returns.
ScopeSettle ==
    /\ pc = "resolving"
    /\ \E c \in inFlight : inFlight' = inFlight \ {c}
    /\ UNCHANGED <<store, pc, request, question, context, rewriteOutput, rewrittenQuery,
                   gatheredSources, structured, result, error, calls, observed, uploadVars,
                   extractVars, chunkerVars, listVars, fetchVars, queryVars>>

\* Promise.all resolves: the missing ids and the namespaces are checked.
ScopeResolved ==
    /\ pc = "resolving"
    /\ inFlight = {}
    /\ LET ctx == resolveAskContext(store, request)
       IN  IF ctx.ok
           THEN /\ context' = ctx
                /\ pc' = "rewrite"
                /\ UNCHANGED error
           ELSE /\ error' = [status |-> ctx.status, message |-> ctx.message]
                /\ pc' = "failed"
                /\ UNCHANGED context
    /\ UNCHANGED <<store, request, question, rewriteOutput, rewrittenQuery, gatheredSources,
                   structured, result, calls, observed, uploadVars, extractVars,
                   chunkerVars, listVars, opVars>>

\* No document_ids: resolveDocumentContext, one registry call after another.
ScopeSingle ==
    /\ Len(ScopeIds(request)) = 0
    /\ ResolveScope

ScopeNext ==
    \/ ValidateQuestion
    \/ ScopeIssue
    \/ ScopeSettle
    \/ ScopeResolved
    \/ ScopeSingle
    \/ Rewrite

SpecScope == Init /\ [][ScopeNext]_vars

(***************************************************************************)
(* Reference arithmetic for the properties: the confidence as the exact    *)
(* rational 0.6*r + 0.25*a + 0.15*c over one denominator                   *)
(***************************************************************************)
RECURSIVE GCD(_, _)
GCD(a, b) == IF b = 0 THEN a ELSE GCD(b, a % b)

PoolScores(pool) == {pool[i].score : i \in 1..Len(pool)}

\* The highest score of the pool (0 for an empty pool).
TopOf(pool) ==
    IF pool = <<>> THEN 0
    ELSE CHOOSE m \in PoolScores(pool) : \A x \in PoolScores(pool) : x <= m

\* The second highest score, counting equal scores of two entries twice; the
\* top score when the pool has one entry.
SecondOf(pool) ==
    IF Len(pool) < 2 THEN TopOf(pool)
    ELSE LET t == CHOOSE i \in 1..Len(pool) : pool[i].score = TopOf(pool)
             others == {pool[i].score : i \in (1..Len(pool)) \ {t}}
         IN  CHOOSE m \in others : \A x \in others : x <= m

\* 10^4 * (0.6*clamp(top/2.5,0,1) + 0.25*agreement + 0.15*citation) as the
\* fraction num/den, the agreement ratio reduced to lowest terms.
ExactConfidence(pool, cited) ==
    LET top    == TopOf(pool)
        second == SecondOf(pool)
        r      == IF top < 0 THEN 0 ELSE IF top > 25000 THEN 25000 ELSE top
        a      == IF second < 0 THEN 0 ELSE IF second > top THEN top ELSE second
        g      == IF top > 0 THEN GCD(top, 2500 * a) ELSE 1
        p      == IF top > 0 THEN (2500 * a) \div g ELSE 0
        q      == IF top > 0 THEN top \div g ELSE 1
        ids    == {pool[i].id : i \in 1..Len(pool)}
        v      == Cardinality({i \in 1..Len(cited) : cited[i] \in ids})
        n      == IF Len(cited) > 0 THEN Len(cited) ELSE 1
    IN  [num |-> 6 * r * q * n + p * 25 * n + 1500 * v * 25 * q,
         den |-> 25 * q * n]

\* c is the exact confidence rounded to four decimals (halves upwards).
IsRounded(x, c) ==
    /\ (2 * c - 1) * x.den <= 2 * x.num
    /\ 2 * x.num < (2 * c + 1) * x.den

\* The retrieval floor does not fire on this pool.
FloorPassed(pool) == pool # <<>> /\ TopOf(pool) >= 8500

(***************************************************************************)
(* Properties of the guardrail (specification Spec)                        *)
(***************************************************************************)
\* C1: when the ask is done and its evidence pool is empty or the pool's top
\* score is below 0.85, the response has guardrail not_found, confidence 0 and
\* the sentinel answer, whatever the controller returned.
C1_RetrievalFloor ==
    (pc = "done" /\ ~FloorPassed(gatheredSources))
        => /\ result.guardrail = "not_found"
           /\ result.confidence = 0
           /\ result.answer = SENTINEL

\* C1 witness: a done ask whose non-empty pool tops out below the floor while
\* the controller reported a grounded answer with a valid citation.
C1_Witness ==
    /\ pc = "done"
    /\ gatheredSources # <<>>
    /\ TopOf(gatheredSources) < 8500
    /\ structured # NONE
    /\ structured.grounded /\ ~structured.not_found
    /\ structured.cited_chunk_ids = <<1>>
    /\ \E i \in 1..Len(gatheredSources) : gatheredSources[i].id = 1

\* C2: when the floor does not fire and the controller reports not_found or
\* not grounded, the response has guardrail not_found, the sentinel answer and
\* confidence min(computed confidence, 0.35).
C2_GroundingGate ==
    (/\ pc = "done"
     /\ FloorPassed(gatheredSources)
     /\ structured # NONE
     /\ (structured.not_found \/ ~structured.grounded))
        => LET x == ExactConfidence(gatheredSources, structured.cited_chunk_ids)
           IN  /\ result.guardrail = "not_found"
               /\ result.answer = SENTINEL
               /\ result.confidence <= 3500
               /\ result.confidence < 3500 => IsRounded(x, result.confidence)
               \* the computed confidence is at least 0.35 when the cap shows
               /\ result.confidence = 3500 => 2 * x.num >= (2 * 3500 - 1) * x.den

\* C2 witness: the controller says not_found although the computed confidence
\* is at or above the caution threshold (0.6).
C2_Witness ==
    /\ pc = "done"
    /\ FloorPassed(gatheredSources)
    /\ structured # NONE
    /\ structured.not_found /\ structured.grounded
    /\ LET x == ExactConfidence(gatheredSources, structured.cited_chunk_ids)
       IN  2 * x.num >= (2 * 6000 - 1) * x.den
    /\ result.confidence = 3500

\* C3: when neither the floor nor the grounding gate fires, the response
\* carries the computed confidence c and: c < 0.4 gives not_found with the
\* sentinel; otherwise c < 0.6 gives caution with the model's (trimmed) answer
\* followed by the caution notice; otherwise ok with the model's answer.
C3_ConfidencePolicy ==
    (/\ pc = "done"
     /\ FloorPassed(gatheredSources)
     /\ structured # NONE
     /\ ~structured.not_found /\ structured.grounded)
        => LET c == result.confidence
           IN  /\ IsRounded(ExactConfidence(gatheredSources, structured.cited_chunk_ids), c)
               /\ c < 4000 => /\ result.guardrail = "not_found"
                              /\ result.answer = SENTINEL
               /\ (c >= 4000 /\ c < 6000) =>
                      /\ result.guardrail = "caution"
                      /\ result.answer = Trim(structured.answer) \o CAUTION_NOTICE
               /\ c >= 6000 => /\ result.guardrail = "ok"
                               /\ result.answer = Trim(structured.answer)

\* C3 witness: a caution response that keeps the model's answer.
C3_Witness ==
    /\ pc = "done"
    /\ result.guardrail = "caution"
    /\ structured # NONE
    /\ structured.answer = <<WS, "A", WS>>
    /\ result.answer = <<"A">> \o CAUTION_NOTICE

(***************************************************************************)
(* Properties of the confidence and of the evidence pool (SpecMerge)       *)
(***************************************************************************)
GroundedAnswer(cited) ==
    [answer |-> <<"A">>, grounded |-> TRUE, not_found |-> FALSE,
     cited_chunk_ids |-> cited]

C5_KeepMaxPerId ==
    /\ \A i, j \in 1..Len(gatheredSources) :
          i # j => gatheredSources[i].id # gatheredSources[j].id
    /\ \A i \in 1..Len(gatheredSources) :
          /\ observed[gatheredSources[i].id] # NONE
          /\ gatheredSources[i].score = observed[gatheredSources[i].id].score

\* C5 witness: after two retrieval calls the pool holds a single entry.  A
\* non-empty result of this specification holds at least two matches, so a
\* result that repeated the chunk id was merged and left one entry.
C5_Witness ==
    /\ calls.retrieval = 2
    /\ gatheredSources = <<Snippet(1, 9000)>>

\* C6: the pool has at most 16 entries in descending order of score, and no
\* chunk id that was retrieved and is absent from the pool has a highest
\* observed score above the score of a pooled entry.
C6_CapAndOrder ==
    /\ Len(gatheredSources) <= 16
    /\ \A i \in 1..Len(gatheredSources) - 1 :
          gatheredSources[i].score >= gatheredSources[i + 1].score
    /\ \A id \in AllChunkIds :
          (/\ observed[id] # NONE
           /\ \A i \in 1..Len(gatheredSources) : gatheredSources[i].id # id)
             => \A i \in 1..Len(gatheredSources) :
                   observed[id].score <= gatheredSources[i].score

\* C6 witness: a full pool of 16 while at least 18 distinct chunk ids were
\* retrieved, so that entries were evicted.
C6_Witness ==
    /\ Len(gatheredSources) = 16
    /\ Cardinality({id \in AllChunkIds : observed[id] # NONE}) >= 18

(***************************************************************************)
(* Properties of the scope check and of the rewrite step (Spec)            *)
(***************************************************************************)
\* The ids an ask scopes: its document_ids trimmed, empty ones dropped.
ScopedIds(req) ==
    IF req.documentIds = NONE THEN {}
    ELSE {Trim(req.documentIds.some[i]) : i \in 1..Len(req.documentIds.some)} \ {<<>>}

RegistryRecordsOf(st, ids) ==
    {r \in st : /\ r.namespace = pineconeNamespace \o <<":", "registry">>
                /\ r.metadata.document_id \in ids}

\* A non-blank ask whose scoped documents are all registered and do not all
\* have the same namespace.
MixedScope(st, req) ==
    /\ Trim(req.question) # <<>>
    /\ \A id \in ScopedIds(req) :
          \E r \in RegistryRecordsOf(st, {id}) : TRUE
    /\ \E r1, r2 \in RegistryRecordsOf(st, ScopedIds(req)) :
          r1.metadata.namespace # r2.metadata.namespace

\* C7: an ask whose scoped documents do not all have the same namespace is
\* rejected with the different-namespaces error (status 400), and no rewrite,
\* retrieval or controller call is issued for it at any time.
C7_InconsistentScope ==
    MixedScope(store, request)
        => /\ calls = NoCalls
           /\ pc \in {"start", "resolve", "failed"}
           /\ result = NONE
           /\ pc = "failed" =>
                 error = [status |-> 400,
                          message |-> "Selected documents belong to different namespaces."]

\* C7 witness: such an ask, rejected.
C7_Witness ==
    /\ MixedScope(store, request)
    /\ pc = "failed"
    /\ Cardinality(ScopedIds(request)) = 3

\* The rewrite call failed or returned an empty query.
RewriteDegraded ==
    \/ rewriteOutput = THREW
    \/ /\ rewriteOutput # NONE
       /\ rewriteOutput # THREW
       /\ Trim(rewriteOutput.query) = <<>>

\* C10: when the rewrite call fails or returns an empty query, the ask goes
\* on to the agent with rewritten_query equal to the question; it ends with a
\* response carrying that query unless the agent call fails.
C10_RewriteFallback ==
    RewriteDegraded
        => /\ rewrittenQuery = question
           /\ pc \in {"agent", "done", "failed"}
           /\ pc = "failed" => error = [status |-> 500, message |-> "upstream"]
           /\ pc = "done" => /\ result # NONE
                             /\ result.rewritten_query = question
                             /\ calls.agent = 1

\* C10 witness: the rewrite call threw and the ask ended with a response
\* after a retrieval.
C10_Witness ==
    /\ rewriteOutput = THREW
    /\ pc = "done"
    /\ calls.retrieval >= 1
    /\ result.rewritten_query = <<"q">>

\* The registry namespace holds a record under the registry key of the
\* document of upload u.
HasRegistryEntry(st, u) ==
    \E r \in st : /\ r.namespace = pineconeNamespace \o <<":", "registry">>
                  /\ r.id = <<"docmeta#">> \o DocumentIdOf(u)

\* C8: a document is never partially visible.  In every reachable state a
\* registry entry for a document exists only if the store write of all of its
\* chunks was acknowledged, the chunks all being in the store; the
\* acknowledgement precedes the save, as it is already there in the state the
\* entry is saved from; and an upload whose chunking, embedding or chunk write
\* failed has no entry.
C8_NeverPartiallyVisible ==
    \A u \in Uploads :
        /\ HasRegistryEntry(store, u) =>
              /\ upAcked[u]
              /\ upPc[u] \in {"done", "failed"}
              /\ SumSeq(upPages[u]) > 0
              /\ UploadChunks(u) \subseteq store
        /\ upPc[u] = "registryWrite" =>
              /\ upAcked[u]
              /\ UploadChunks(u) \subseteq store
        /\ (upPc[u] = "failed" /\ ~upAcked[u]) => ~HasRegistryEntry(store, u)

\* One upload has its entry and all its chunks; another failed in the chunk
\* write, which stored some of its chunks and not all, and has no entry.
C8_Witness ==
    \E u, v \in Uploads :
        /\ upPc[u] = "done"
        /\ HasRegistryEntry(store, u)
        /\ upPc[v] = "failed"
        /\ ~upAcked[v]
        /\ UploadChunks(v) \cap store # {}
        /\ ~(UploadChunks(v) \subseteq store)
        /\ ~HasRegistryEntry(store, v)

\* The records with record_type "document_registry".
IsRegistryRecord(r) ==
    /\ "record_type" \in DOMAIN r.metadata
    /\ r.metadata.record_type = "document_registry"

\* C9: registry entries live in a namespace separate from all chunk data.
\* For every tenant_id an upload completed with, the chunk namespace differs
\* from the registry namespace; no chunk record is in the registry namespace;
\* and no registry record is among the records that a read of a document's
\* chunks, filtered by document_id in its chunk namespace, returns.
C9_SeparateNamespaces ==
    /\ \A u \in Uploads :
          upPc[u] = "done" =>
              buildNamespace(TenantOf(upTenant[u])) # getRegistryNamespace
    /\ \A r \in store : r.namespace = getRegistryNamespace => IsRegistryRecord(r)
    /\ \A u \in Uploads :
          \A r \in FetchByMetadata(store, buildNamespace(TenantOf(upTenant[u])),
                                   DocumentIdOf(u)) : ~IsRegistryRecord(r)

(***************************************************************************)
(* Properties of the requests' scope and errors (SpecRequests)             *)
(***************************************************************************)
\* The ids a request names: its document_ids trimmed, empty ones dropped, or,
\* when there are none, its document_id.
NamedIds(req) ==
    IF ScopedIds(req) # {} THEN ScopedIds(req)
    ELSE IF req.documentId = NONE THEN {} ELSE {req.documentId.some}

\* The registry holds the record of the document under its registry key.
Registered(st, id) ==
    \E r \in RegistryRecordsOf(st, {id}) : r.id = <<"docmeta#">> \o id

\* The request names an id without a registry entry, or names none while the
\* registry is empty.
Unresolvable(st, req) ==
    \/ \E id \in NamedIds(req) : ~Registered(st, id)
    \/ /\ NamedIds(req) = {}
       /\ ~\E r \in st : r.namespace = pineconeNamespace \o <<":", "registry">>

RegistryRecords(st) ==
    {r \in st : r.namespace = pineconeNamespace \o <<":", "registry">> /\ IsRegistryRecord(r)}

\* C12 as stated: a request without any document id is scoped to the one
\* document with the greatest uploaded_at among the documents whose upload
\* had returned successfully before the request was issued.
C12_LatestReturnedBeforeIssue ==
    exIds # <<>> =>
        \E u \in exIssued :
            /\ exIds = <<DocumentIdOf(u)>>
            /\ \A v \in exIssued : upTime[v] <= upTime[u]

\* C12 amended: a request without any document id is scoped to a document
\* with the greatest uploaded_at among the registry entries that are in the
\* store when the request lists the registry, and fails with status 404 when
\* there is none.
C12_LatestRegistered ==
    [][(exPc = "start" /\ exPc' # "start" /\ ExtractRawIds(exRequest) = <<>>
          /\ exRequest.documentId = NONE /\ ~(exPc' = "failed" /\ exError'.status = 500))
        => IF RegistryRecords(store) = {}
           THEN exPc' = "failed" /\ exError'.status = 404
           ELSE /\ exPc' = "lookup"
                /\ \E r \in RegistryRecords(store) :
                      /\ exIds' = <<r.metadata.document_id>>
                      /\ \A o \in RegistryRecords(store) :
                            o.metadata.uploaded_at <= r.metadata.uploaded_at]_vars

\* Every upload had returned when the request was issued, and the request is
\* scoped to one document.
C12_Witness ==
    /\ exIssued = Uploads
    /\ exPc = "lookup"
    /\ Len(exIds) = 1
    /\ Cardinality(RegistryRecords(store)) = Cardinality(Uploads)

(***************************************************************************)
(* Properties of the empty question (Spec)                                 *)
(***************************************************************************)
\* The question has no token other than whitespace.
BlankQuestion(req) == \A i \in 1..Len(req.question) : req.question[i] = WS

\* C13: an ask whose question is empty or only whitespace is rejected with
\* status 400 ("Question cannot be empty."); it never reaches the scope
\* resolution, where the registry is read, nor the rewrite, the retrievals or
\* the controller, and returns no response.
C13_EmptyQuestion ==
    (pc # "idle" /\ BlankQuestion(request))
        => /\ pc \in {"start", "failed"}
           /\ context = NONE
           /\ calls = NoCalls
           /\ rewriteOutput = NONE
           /\ gatheredSources = <<>>
           /\ result = NONE
           /\ pc = "failed" =>
                 error = [status |-> 400, message |-> "Question cannot be empty."]

\* A whitespace-only question for a registered document, rejected.
C13_Witness ==
    /\ pc = "failed"
    /\ request.question = <<WS>>
    /\ request.documentId = Some(D1)
    /\ store # {}
    /\ error.status = 400

(***************************************************************************)
(* Properties of the extract request (SpecExtract)                         *)
(***************************************************************************)
\* The status uploadDocument gives the error of a document that yields no
\* chunk (unprocessable content).
UNPROCESSABLE_CONTENT == 422

\* The text the store holds for a registered document is empty.
NoChunkText(st, id) ==
    \A r \in st :
        (/\ r.metadata.document_id = id
         /\ \E e \in RegistryRecordsOf(st, {id}) : r.namespace = e.metadata.namespace)
            => ("chunk_text" \notin DOMAIN r.metadata \/ r.metadata.chunk_text = <<>>)

\* The extract stopped at a registered document without chunk text.
StoppedAtEmptyDocument ==
    /\ exPc = "failed"
    /\ exError.status # 500
    /\ Len(exResults) < Len(exIds)
    /\ Registered(store, exIds[Len(exResults) + 1])
    /\ NoChunkText(store, exIds[Len(exResults) + 1])

\* The documents are taken in request order, one result per document, and a
\* registered document without chunk text ends the request with `status` and
\* without a response, whatever was collected before.
FailFast(status) ==
    /\ \A i \in 1..Len(exResults) : exResults[i].document_id = exIds[i]
    /\ (exIds # <<>> /\ ExtractRawIds(exRequest) # <<>>) =>
          exIds = Unique(<<>>, ExtractRawIds(exRequest))
    /\ exPc = "done" =>
          /\ exResponse.total = Len(exIds)
          /\ \A i \in 1..Len(exIds) : ~NoChunkText(store, exIds[i])
    /\ (exPc # "idle" /\ \E i \in 1..Len(exIds) :
            Registered(store, exIds[i]) /\ NoChunkText(store, exIds[i]))
          => exResponse = NONE
    /\ StoppedAtEmptyDocument =>
          /\ exError.status = status
          /\ exResponse = NONE

\* C14: an extract processes its documents one after another in request
\* order, and a document with no reconstructable chunk text fails the whole
\* request with UnprocessableContent, no results being returned.
C14_FailFastUnprocessable == FailFast(UNPROCESSABLE_CONTENT)

(***************************************************************************)
(* Properties of the extraction confidence (SpecExtraction)                *)
(***************************************************************************)
\* The fields of a result's extraction that are not null.
NonNullFields(r) == {f \in DOMAIN r.extraction : r.extraction[f] # NONE}

KindOf(failure) ==
    CASE failure.message = "Question cannot be empty." -> "InvalidInput"
      [] failure.message = "Selected documents belong to different namespaces."
            -> "InconsistentScope"
      [] failure.message = "No indexed chunk content found." -> "UnprocessableContent"
      [] failure.message = "upstream" -> "UpstreamFailure"
      [] OTHER -> "NotFound"

\* C16: failures of different kinds reach their callers with different
\* status values: an ask and an extract that failed with the same status
\* failed with the same kind.
C16_DistinguishingStatus ==
    (pc = "failed" /\ exPc = "failed" /\ error.status = exError.status)
        => KindOf(error) = KindOf(exError)

(***************************************************************************)
(* Properties of the chunker (SpecChunker)                                 *)
(***************************************************************************)
\* The chunk ids of a page numbered pageNumber, by ordinal.
ChunkIdOf(documentId, pageNumber, ordinal) ==
    documentId \o <<"#p", NumeralOf(pageNumber), "c", NumeralOf(ordinal)>>

\* C17: the chunks returned for a page list are numbered 1..N in output
\* order, the chunks of an earlier-listed page come before those of a
\* later-listed one, and the ordinal in chunk_id counts from 1 within each
\* page.
C17_ChunkNumbering ==
    ckPc = "done" =>
        LET pages == ckParams.pageTexts
            N     == Len(ckChunks)
        IN  /\ \A i \in 1..N : ckChunks[i].metadata.chunk_number = i
            /\ \E pageOf \in [1..N -> 1..Len(pages)] :
                  /\ \A i, j \in 1..N : i < j => pageOf[i] <= pageOf[j]
                  /\ \A i \in 1..N :
                        /\ ckChunks[i].metadata.page_number = pages[pageOf[i]].pageNumber
                        /\ ckChunks[i].id =
                               ChunkIdOf(ckParams.documentId, pages[pageOf[i]].pageNumber,
                                         Cardinality({j \in 1..i : pageOf[j] = pageOf[i]}))

\* Two pages listed as page 2, then page 1, three chunks each: the fourth
\* chunk is the first of page 1.
C17_Witness ==
    /\ ckPc = "done"
    /\ Len(ckParams.pageTexts) = 2
    /\ ckParams.pageTexts[1].pageNumber = 2
    /\ Len(ckChunks) = 6
    /\ ckChunks[3].id = ChunkIdOf(D1, 2, 3)
    /\ ckChunks[4].id = ChunkIdOf(D1, 1, 1)
    /\ ckChunks[4].metadata.chunk_number = 4

\* The number of pages of a plain text: a form feed ends a page.
PlainTextPages(text) == Cardinality({i \in 1..Len(text) : text[i] = FF}) + 1

\* C18: the chunks of a 2-page plain-text upload have the page_number values
\* 1 and 2, and chunk_number 1..N in order.
C18_TwoPagePlainText ==
    (/\ ckPc = "done"
     /\ ckFile # NONE
     /\ ckFile.some.extension = "txt"
     /\ PlainTextPages(ckFile.some.text) = 2)
        => /\ {ckChunks[i].metadata.page_number : i \in 1..Len(ckChunks)} = {1, 2}
           /\ \A i \in 1..Len(ckChunks) : ckChunks[i].metadata.chunk_number = i

\* A blank line: two line breaks in a row, "\r\n" counting as one.
HasBlankLine(text) ==
    LET normalized == NormalizeNewlines(text)
    IN  \E i \in 1..(Len(normalized) - 1) : normalized[i] = NL /\ normalized[i + 1] = NL

TargetSize(params) ==
    IF params.targetChars = NONE THEN DEFAULT_TARGET_CHARS ELSE params.targetChars.some

\* The pages of the call that have no blank line and at most target_size
\* characters, and whose page number no other page of the list has.
ShortPages(params) ==
    {p \in 1..Len(params.pageTexts) :
        /\ ~HasBlankLine(params.pageTexts[p].text)
        /\ Len(params.pageTexts[p].text) <= TargetSize(params)
        /\ \A q \in 1..Len(params.pageTexts) :
              params.pageTexts[q].pageNumber = params.pageTexts[p].pageNumber => q = p}

\* The chunks returned for page p of the call.
ChunksOfPage(p) ==
    {i \in 1..Len(ckChunks) :
        ckChunks[i].metadata.page_number = ckParams.pageTexts[p].pageNumber}

\* C19 as stated: a page with no blank line and at most target_size
\* characters yields exactly one chunk.
C19_OneChunkPerShortPage ==
    ckPc = "done" =>
        \A p \in ShortPages(ckParams) : Cardinality(ChunksOfPage(p)) = 1

\* C19 amended: a page with no blank line and at most target_size characters
\* yields exactly one chunk when it has a character that is not whitespace,
\* and no chunk otherwise.
C19_OneChunkPerNonBlankShortPage ==
    ckPc = "done" =>
        \A p \in ShortPages(ckParams) :
            Cardinality(ChunksOfPage(p)) =
                IF \E i \in 1..Len(ckParams.pageTexts[p].text) :
                       ckParams.pageTexts[p].text[i] \notin Whitespace
                THEN 1 ELSE 0

\* A page of two lines, as long as the target size: one chunk, the line break
\* collapsed to a space.
C19_Witness ==
    /\ ckPc = "done"
    /\ ckParams.targetChars = Some(3)
    /\ Len(ckParams.pageTexts) = 1
    /\ ckParams.pageTexts[1].text = <<"a", NL, "a">>
    /\ Len(ckChunks) = 1
    /\ ckChunks[1].text = <<"a", WS, "a">>

(***************************************************************************)
(* Properties of the registry listing (SpecList)                           *)
(***************************************************************************)
\* The registry entries in the store.
VisibleEntries(st) == {r \in st : r.namespace = getRegistryNamespace /\ IsRegistryRecord(r)}

\* C20: the list holds every registry entry in the store exactly once,
\* however many pages the ids came in, newest first; getLatestDocumentId
\* returns the document id of its first entry, and none when it is empty.
C20_RegistryList ==
    lsPc = "done" =>
        /\ Len(lsItems) = Cardinality(VisibleEntries(store))
        /\ \A r \in VisibleEntries(store) :
              \E i \in 1..Len(lsItems) :
                  /\ lsItems[i].documentId = r.metadata.document_id
                  /\ lsItems[i].uploadedAt = r.metadata.uploaded_at
        /\ \A i, j \in 1..Len(lsItems) : i < j => lsItems[i].uploadedAt >= lsItems[j].uploadedAt
        /\ lsCaller = "listRegistryItems" => lsResult = Some(lsItems)
        /\ lsCaller = "getLatestDocumentId" =>
              lsResult = IF lsItems = <<>> THEN NONE ELSE Some(lsItems[1].documentId)

\* Three entries listed in three pages, the oldest id first: the list is
\* newest first.
C20_Witness ==
    /\ lsPc = "done"
    /\ lsCaller = "listRegistryItems"
    /\ Len(lsPages) = 3
    /\ lsPages[1] = <<toRegistryId(D1)>>
    /\ Len(lsItems) = 3
    /\ lsItems[1].documentId = D3
    /\ lsItems[3].documentId = D1
    /\ StrayChunks \subseteq store

(***************************************************************************)
(* Properties of fetchDocumentChunks (SpecFetch)                           *)
(***************************************************************************)
\* The chunk records of a document in a namespace.
ChunkRecordsOf(st, namespace, documentId) ==
    {r \in st : /\ r.namespace = namespace
                /\ ~IsRegistryRecord(r)
                /\ r.metadata.document_id = documentId}

\* C21: fetchDocumentChunks returns every chunk record of the document, from
\* every page of the store's response, exactly once and with score 0, sorted
\* ascending by chunk_number; it returns only when the store has returned a
\* page without a continuation token.
C21_FetchAll ==
    /\ fcPc = "done" =>
          LET snippets == fcResult.some
          IN  /\ fcPending = {}
              /\ \A r \in ChunkRecordsOf(store, fcParams.namespace, fcParams.documentId) :
                    Cardinality({i \in 1..Len(snippets) : snippets[i].id = r.id}) = 1
              /\ \A i \in 1..Len(snippets) :
                    /\ snippets[i].score = 0
                    /\ snippets[i].metadata.document_id = fcParams.documentId
              /\ \A i, j \in 1..Len(snippets) :
                    i < j => ChunkNumberOf(snippets[i]) <= ChunkNumberOf(snippets[j])
    /\ fcPc = "page" => fcResult = NONE

\* d1 fetched in three pages of one record, the third chunk first: the
\* result is in the order of chunk_number.
C21_Witness ==
    /\ fcPc = "done"
    /\ fcParams.documentId = D1
    /\ fcPages = 3
    /\ fcCollected[1].metadata.chunk_number = 3
    /\ [i \in 1..3 |-> fcResult.some[i].metadata.chunk_number] = <<1, 2, 3>>

(***************************************************************************)
(* Properties of queryHybrid (SpecQuery)                                   *)
(***************************************************************************)
\* C22: the query carries a set-membership filter over document_ids when the
\* list is given and not empty (whether or not document_id is given), else
\* an exact-match filter on document_id when that is given, else no filter;
\* never both; and the result is the matches that have an id and metadata.
C22_QueryFilter ==
    /\ qyRequest # NONE =>
          LET req  == qyRequest.some
              ids  == qyParams.documentIds
              id   == qyParams.documentId
          IN  IF ids # NONE /\ ids.some # <<>>
              THEN /\ "filter" \in DOMAIN req
                   /\ DOMAIN req.filter = {"document_id"}
                   /\ req.filter.document_id = [in |-> ids.some]
              ELSE IF id # NONE /\ id.some # <<>>
              THEN /\ "filter" \in DOMAIN req
                   /\ DOMAIN req.filter = {"document_id"}
                   /\ req.filter.document_id = [eq |-> id.some]
              ELSE "filter" \notin DOMAIN req
    /\ qyPc = "done" =>
          LET matches == qyResult.matches
              sources == qyResult.sources
              whole   == {i \in 1..Len(matches) :
                             matches[i].id # NONE /\ matches[i].metadata # NONE}
          IN  /\ Len(sources) = Cardinality(whole)
              /\ \A i \in whole :
                    LET k == Cardinality({j \in whole : j <= i})
                    IN  /\ sources[k].id = matches[i].id.some
                        /\ sources[k].metadata = matches[i].metadata

\* Both document_id and document_ids given: the filter is the set form, and
\* of two matches the one without metadata is left out.
C22_Witness ==
    /\ qyPc = "done"
    /\ qyParams.documentId = Some(D1)
    /\ qyParams.documentIds = Some(<<D3, D1>>)
    /\ qyRequest.some.filter.document_id = [in |-> <<D3, D1>>]
    /\ Len(qyResult.matches) = 2
    /\ qyResult.matches[1].metadata = NONE
    /\ Len(qyResult.sources) = 1
    /\ qyResult.sources[1].score = 8501

(***************************************************************************)
(* Properties of the confidence (SpecConfidence)                           *)
(***************************************************************************)
FracEq(a, b) == a.num * b.den = b.num * a.den

TopScoreOf(sources) == IF Len(sources) >= 1 THEN sources[1].score ELSE 0

SecondScoreOf(sources) ==
    IF Len(sources) >= 2 THEN sources[2].score ELSE TopScoreOf(sources)

\* topScore > 0 ? clamp(secondScore / topScore, 0, 1) : 0, as a fraction.
AgreementSignal(sources) ==
    IF TopScoreOf(sources) > 0
    THEN Frac(clamp(SecondScoreOf(sources), 0, TopScoreOf(sources)), TopScoreOf(sources))
    ELSE Frac(0, 1)

\* Two pools have the same agreement signal and, for the cited ids, the same
\* citation signal.
SameSignals(a, b, cited) ==
    /\ FracEq(AgreementSignal(a), AgreementSignal(b))
    /\ FracEq(citationTerm(a, cited), citationTerm(b, cited))

\* The pools to compare with: every result list, best first.
ComparedPools == {<<>>} \cup {mergeSources(<<>>, r, MAX_SOURCES_IN_STATE) : r \in ConfidenceResults}

\* C23: with the agreement and citation signals the same, a pool whose top
\* score is higher (both within 0 .. 2.5) never has the lower confidence.
C23_MonotoneInTopScore ==
    pc = "done" =>
        LET cited == StructuredOrDefault(structured).cited_chunk_ids
        IN  \A other \in ComparedPools :
                /\ TopScoreOf(gatheredSources) \in 0..25000
                /\ TopScoreOf(other) \in 0..25000
                /\ TopScoreOf(other) >= TopScoreOf(gatheredSources)
                /\ SameSignals(gatheredSources, other, cited)
                => calculateConfidence(other, cited)
                      >= calculateConfidence(gatheredSources, cited)

\* A pool with top score 1.0, second score 0.5 and one of two citations
\* valid; the pool with 2.0 and 1.0 has the same signals and a higher
\* confidence.
C23_Witness ==
    /\ pc = "done"
    /\ Len(gatheredSources) = 2
    /\ TopScoreOf(gatheredSources) = 10000
    /\ SecondScoreOf(gatheredSources) = 5000
    /\ structured # NONE
    /\ structured.cited_chunk_ids = <<1, 0>>
    /\ \E other \in ComparedPools :
          /\ TopScoreOf(other) = 20000
          /\ SameSignals(gatheredSources, other, structured.cited_chunk_ids)
          /\ calculateConfidence(other, structured.cited_chunk_ids)
                > calculateConfidence(gatheredSources, structured.cited_chunk_ids)

(***************************************************************************)
(* Properties of the order of steps of one ask (Spec)                      *)
(***************************************************************************)
\* C24: an ask whose controller has answered has made at least one retrieval
\* call.
C24_RetrievesBeforeAnswer ==
    pc = "done" => calls.retrieval >= 1

\* C25: within one ask at most one retrieval call is in flight.
C25_SequentialRetrievals ==
    Cardinality({c \in inFlight : c.op = "queryHybrid"}) <= 1

(***************************************************************************)
(* Idempotence of the evidence-pool merge (SpecMerge)                      *)
(***************************************************************************)
MergedWith(r) == mergeSources(gatheredSources, r, MAX_SOURCES_IN_STATE)

\* C26: for the pool of every state and every result list, merging the
\* result into the pool a second time leaves the pool as the first merge
\* made it: the same snippets in the same order.
C26_MergeIdempotent ==
    \A r \in MergeResults :
        mergeSources(MergedWith(r), r, MAX_SOURCES_IN_STATE) = MergedWith(r)

\* A full pool with two snippets of equal score, and a window that changes
\* the pool, does not fit into it whole, and changes nothing when merged
\* again.
C26_Witness ==
    /\ calls.retrieval >= 2
    /\ Len(gatheredSources) = MAX_SOURCES_IN_STATE
    /\ \E i \in 1..Len(gatheredSources) - 1 :
          gatheredSources[i].score = gatheredSources[i + 1].score
    /\ \E w \in 0..NumWindows - 1, top \in {0, 9000, 30000} :
          LET r == Window(w, top)
          IN  /\ MergedWith(r) # gatheredSources
              /\ \E i \in 1..Len(r) :
                    \A j \in 1..Len(MergedWith(r)) : MergedWith(r)[j].id # r[i].id
              /\ mergeSources(MergedWith(r), r, MAX_SOURCES_IN_STATE) = MergedWith(r)

(***************************************************************************)
(* The order of the steps of one ask (Spec)                                *)
(***************************************************************************)
\* The steps an ask takes from one position to the next.
AskSteps ==
    {<<"start", "resolve">>, <<"start", "failed">>,
     <<"resolve", "rewrite">>, <<"resolve", "failed">>,
     <<"rewrite", "agent">>,
     <<"agent", "done">>, <<"agent", "failed">>}

\* C27: an ask past scope resolution rewrites once, then retrieves zero or
\* more times, then answers and passes the guardrail once and is done: no
\* retrieval before the rewrite or after the answer, the pool does not
\* change after the answer, and the response is the guardrail's verdict on
\* the pool as the last retrieval left it.
C27_StepOrder ==
    /\ [](/\ pc \in {"start", "resolve", "rewrite"} => calls = NoCalls /\ result = NONE
          /\ pc \in {"agent", "done"} => calls.rewrite = 1 /\ calls.agent = 1
          /\ pc = "agent" => result = NONE
          /\ pc = "done" =>
                /\ result = AskResponse(context.documentIds, rewrittenQuery,
                                        gatheredSources, structured)
                /\ result.sources = gatheredSources)
    /\ [][/\ pc' # pc => <<pc, pc'>> \in AskSteps
          /\ calls'.retrieval # calls.retrieval =>
                /\ pc = "agent" /\ pc' = "agent"
                /\ calls'.retrieval = calls.retrieval + 1
          /\ gatheredSources' # gatheredSources => pc = "agent" /\ pc' = "agent"
          /\ calls'.rewrite # calls.rewrite => pc = "rewrite" /\ pc' = "agent"
          /\ pc = "done" => UNCHANGED <<pc, calls, gatheredSources, structured, result>>]_vars

\* An ask that retrieved twice and was answered within the guardrail.
C27_Witness ==
    /\ pc = "done"
    /\ calls = [rewrite |-> 1, retrieval |-> 2, agent |-> 1]
    /\ Len(gatheredSources) = 2
    /\ result.sources = gatheredSources
    /\ result.guardrail = "ok"

(***************************************************************************)
(* External calls in flight within one request (SpecScope)                 *)
(***************************************************************************)
\* C28: within one request at most one external call is in flight.
C28_OneCallInFlight ==
    Cardinality(inFlight) <= 1

(***************************************************************************)
(* The settling step of upsertHybridChunks (SpecUpload)                    *)
(***************************************************************************)
\* Positions of an upload at which upsertHybridChunks has returned to
\* uploadDocument.
AfterUpsert == {"registryEmbed", "registryWrite", "done"}

\* C29: upsertHybridChunks returns only from its settling step, which it
\* enters only when the store write was acknowledged: an upload past the
\* upsert has its chunks acknowledged and stored, and it got there by the
\* settling delay elapsing.
C29_SettleBeforeReturn ==
    /\ [](\A u \in Uploads :
             upPc[u] \in AfterUpsert \cup {"settle"} =>
                 upAcked[u] /\ UploadChunks(u) \subseteq store)
    /\ [][\A u \in Uploads :
             /\ upPc'[u] = "settle" /\ upPc[u] # "settle" =>
                   upPc[u] = "writeChunks" /\ upAcked'[u]
             /\ upPc'[u] \in AfterUpsert /\ upPc[u] \notin AfterUpsert =>
                   upPc[u] = "settle" /\ upAcked[u] /\ upPc'[u] = "registryEmbed"]_vars

\* One upload has returned from the upsert while another is still settling.
C29_Witness ==
    \E u, v \in Uploads :
        /\ upPc[u] = "registryEmbed"
        /\ upAcked[u]
        /\ UploadChunks(u) \subseteq store
        /\ upPc[v] = "settle"

(***************************************************************************)
(* Chunks and page boundaries (SpecChunker)                                *)
(***************************************************************************)
\* The characters of a text that are not whitespace, in order.
NonWhitespace(text) == SelectSeq(text, LAMBDA c : c \notin Whitespace)

\* a occurs in b as a run of adjacent elements.
IsInfix(a, b) ==
    \E k \in 0..Len(b) - Len(a) : SubSeq(b, k + 1, k + Len(a)) = a

\* The chunk texts of page p chunked as a document of its own.
TextsOfPageAlone(p) ==
    LET alone == createChunksFromPages([ckParams EXCEPT !.pageTexts = <<ckParams.pageTexts[p]>>])
    IN  [k \in 1..Len(alone) |-> alone[k].text]

\* C30: no chunk crosses a page boundary.  The chunks are, page after page,
\* the chunks each page yields when chunked alone, each carrying the number
\* of its page; and the letters of a chunk are a run of the letters of a
\* page that has the number the chunk carries.
C30_WithinOnePage ==
    ckPc = "done" =>
        LET pages == ckParams.pageTexts
        IN  /\ [i \in 1..Len(ckChunks) |-> ckChunks[i].text]
                  = Flatten([p \in 1..Len(pages) |-> TextsOfPageAlone(p)])
            /\ [i \in 1..Len(ckChunks) |-> ckChunks[i].metadata.page_number]
                  = Flatten([p \in 1..Len(pages) |->
                                [k \in 1..Len(TextsOfPageAlone(p)) |-> pages[p].pageNumber]])
            /\ \A i \in 1..Len(ckChunks) :
                  /\ ckChunks[i].metadata.chunk_text = ckChunks[i].text
                  /\ \E p \in 1..Len(pages) :
                        /\ pages[p].pageNumber = ckChunks[i].metadata.page_number
                        /\ IsInfix(NonWhitespace(ckChunks[i].text),
                                   NonWhitespace(pages[p].text))

\* Two pages of different letters, each cut into three chunks: the first
\* chunk of the second page starts with that page's text, with nothing of
\* the page before it.
C30_Witness ==
    /\ ckPc = "done"
    /\ Len(ckParams.pageTexts) = 2
    /\ ckParams.pageTexts[1].pageNumber = 2
    /\ ckParams.pageTexts[2].pageNumber = 1
    /\ Len(ckChunks) = 6
    /\ \A i \in 1..3 : ckChunks[i].metadata.page_number = 2
    /\ ckChunks[3].text = <<"a", "a">>
    /\ \A i \in 4..6 : ckChunks[i].metadata.page_number = 1
    /\ ckChunks[4].text = <<"b">>
    /\ ckChunks[6].text = <<"b", "b">>

(***************************************************************************)
(* The steps of buildOverlappingChunks (SpecBuild)                         *)
(***************************************************************************)
\* The trailing overlapChars characters of a buffer, trimmed.
OverlapOf(buffer, overlapChars) ==
    TrimChars(SubSeq(buffer, Len(buffer) - Min(overlapChars, Len(buffer)) + 1, Len(buffer)))

\* The buffer a flush leaves: the overlap, a blank line and the paragraph, or
\* the paragraph alone when the overlap is empty.
SeedOf(buffer, paragraph, overlapChars) ==
    IF OverlapOf(buffer, overlapChars) = <<>> THEN paragraph
    ELSE OverlapOf(buffer, overlapChars) \o <<NL, NL>> \o paragraph

\* A step that adds a paragraph to a buffer that is not empty flushes, or
\* not, as `flushes` says of the buffer and the paragraph: a flush pushes the
\* buffer, and leaves the seed unless that is hard-split at once; otherwise
\* the paragraph is appended after a blank line and nothing is pushed.
FlushRule(flushes(_, _)) ==
    bdRest' # bdRest /\ bdCurrent # <<>> =>
          LET paragraph == Head(bdRest)
              n         == Len(bdChunks)
              seed      == SeedOf(bdCurrent, paragraph, bdParams.overlapChars)
          IN  IF flushes(bdCurrent, paragraph)
              THEN /\ Len(bdChunks') \in {n + 1, n + 2}
                   /\ SubSeq(bdChunks', 1, n) = bdChunks
                   /\ bdChunks'[n + 1] = bdCurrent
                   /\ Len(bdChunks') = n + 1 => bdCurrent' = seed
                   /\ Len(bdChunks') = n + 2 => 2 * Len(seed) > 3 * bdParams.targetChars
              ELSE /\ bdChunks' = bdChunks
                   /\ bdCurrent' = bdCurrent \o <<NL, NL>> \o paragraph

FlushesAsStated(buffer, paragraph) ==
    Len(buffer) + Len(paragraph) > bdParams.targetChars

FlushesWithSeparator(buffer, paragraph) ==
    Len(buffer) + 2 + Len(paragraph) > bdParams.targetChars

\* C31 as stated: the buffer is flushed exactly when len(buffer) +
\* len(paragraph) > target_size.
C31_FlushWhenOverTarget == [][FlushRule(FlushesAsStated)]_vars

\* C31 amended: the buffer is flushed exactly when len(buffer) + 2 +
\* len(paragraph) > target_size, the 2 being the blank line that joins them;
\* the next buffer is then the trimmed trailing overlap_size characters of
\* the flushed buffer, a blank line and the paragraph (the paragraph alone
\* when that overlap is empty); otherwise the paragraph is appended after a
\* blank line and nothing is flushed.
C31_FlushWhenJoinedOverTarget == [][FlushRule(FlushesWithSeparator)]_vars

\* A buffer "ab" and a paragraph "cd" with target 5 and overlap 1: 4
\* characters, 6 when joined; the buffer was flushed and the next buffer is
\* "b", a blank line and "cd".
C31_Witness ==
    /\ bdPc = "loop"
    /\ bdParams.targetChars = 5
    /\ bdParams.overlapChars = 1
    /\ bdChunks = <<<<"a", "b">>>>
    /\ bdCurrent = <<"b", NL, NL, "c", "d">>
    /\ Len(bdRest) = 1

\* The buffer as a step makes it by adding the paragraph, before any hard
\* split: the paragraph itself, the buffer joined with the paragraph, or the
\* seed a flush leaves.
AddedTo(buffer, paragraph) ==
    IF buffer = <<>> THEN paragraph
    ELSE IF FlushesWithSeparator(buffer, paragraph)
    THEN SeedOf(buffer, paragraph, bdParams.overlapChars)
    ELSE buffer \o <<NL, NL>> \o paragraph

\* The hard split of a step whose added buffer is longer than 1.5 times the
\* target: the first target_size characters are the chunk pushed last, and
\* the buffer goes on (trimmed) from target_size - overlap_size.
HardSplit(first) ==
    bdRest' # bdRest /\ (first \/ bdCurrent # <<>>) =>
        LET added == AddedTo(bdCurrent, Head(bdRest))
        IN  2 * Len(added) > 3 * bdParams.targetChars =>
                /\ bdChunks' # <<>>
                /\ bdChunks'[Len(bdChunks')] = SubSeq(added, 1, bdParams.targetChars)
                /\ bdCurrent' =
                       TrimChars(SubSeq(added, bdParams.targetChars - bdParams.overlapChars + 1,
                                        Len(added)))

\* C32: after any addition of a paragraph, the first of a page included, a
\* buffer longer than 1.5 x target_size is hard-split.
C32_HardSplitAfterAnyAddition == [][HardSplit(TRUE)]_vars

(***************************************************************************)
(* Uploads without content (SpecIngest)                                    *)
(***************************************************************************)
\* A text with no character that is not whitespace.
IsBlank(text) == \A i \in 1..Len(text) : text[i] \in Whitespace

\* The parsed content of a file is empty: no page with text, and no text or
\* markdown of the whole document.
ParsedEmpty(file) ==
    LET parsed == parseFile(file)
    IN  /\ \A i \in 1..Len(parsed.pageTexts) : IsBlank(parsed.pageTexts[i].text)
        /\ IsBlank(parsed.markdownFull)
        /\ IsBlank(parsed.textFull)

\* C33: an upload whose parsed content is empty, or which produces zero
\* chunks, is rejected, and nothing of it is written to the store.
C33_EmptyUploadRejected ==
    ckPc \in {"rejected", "stored"} /\ (ParsedEmpty(ckFile.some) \/ ckChunks = <<>>) =>
        ckPc = "rejected" /\ store = {}

\* The operations that ended with an error and those that ended normally.
AskEnded ==
    /\ pc = "failed" => result = NONE /\ error # NONE
    /\ pc = "done" => result # NONE /\ error = NONE
    /\ error # NONE => pc = "failed"

UploadEnded(u) ==
    /\ upPc[u] = "failed" => upResult[u] \in {UploadFailure(400), UploadFailure(422),
                                              UploadFailure(500)}
    /\ upPc[u] = "done" => upResult[u] # NONE /\ upResult[u].ok
    /\ upResult[u] # NONE => upPc[u] \in {"done", "failed"}

ExtractEnded ==
    /\ exPc = "failed" => exResponse = NONE /\ exError # NONE
    /\ exPc = "done" => exResponse # NONE /\ exError = NONE
    /\ exError # NONE => exPc = "failed"

\* The step in which an awaited embedding, store or model call other than
\* the rewrite call rejects, in an ask, an extract and an upload.
AskUpstreamFailure ==
    /\ pc = "agent"
    /\ pc' = "failed"
    /\ error' = [status |-> 500, message |-> "upstream"]
    /\ result' = NONE

ExtractUpstreamFailure ==
    /\ exPc \in {"start", "lookup", "fetch", "model"}
    /\ exPc' = "failed"
    /\ exError' = [status |-> 500, message |-> "upstream"]
    /\ exResponse' = NONE

UploadUpstreamFailure(u) ==
    /\ upPc[u] \notin {"start", "done", "failed"}
    /\ upPc'[u] = "failed"
    /\ upResult'[u] = UploadFailure(500)

StoredChunksOf(st, documentId) ==
    {r \in st : /\ ~IsRegistryRecord(r)
                /\ r.metadata.document_id = documentId}

\* C35: the chunk ids of one chunking call are pairwise distinct for any page
\* list the upload passes to it, so the upsert of the chunks leaves exactly
\* chunk_count records of the document in the store.
C35_DistinctChunkIds ==
    ckPc \in {"done", "stored"} =>
        /\ \A i, j \in 1..Len(ckChunks) : ckChunks[i].id = ckChunks[j].id => i = j
        /\ ckPc = "stored" =>
              Cardinality(StoredChunksOf(store, ckParams.documentId)) = Len(ckChunks)

EndsWith(text, suffix) ==
    /\ Len(text) >= Len(suffix)
    /\ SubSeq(text, Len(text) - Len(suffix) + 1, Len(text)) = suffix

\* C36: every response of an ask is consistent under the default
\* thresholds: the confidence is in [0, 1]; not_found comes with the sentinel
\* answer and a confidence below 0.4; caution with a confidence in [0.4, 0.6)
\* and an answer that ends with the caution notice; ok with a confidence of
\* at least 0.6.
C36_ConsistentResult ==
    pc = "done" =>
        /\ result.confidence >= 0 /\ result.confidence <= 10000
        /\ result.guardrail \in {"ok", "caution", "not_found"}
        /\ result.guardrail = "not_found" =>
              result.answer = SENTINEL /\ result.confidence < 4000
        /\ result.guardrail = "caution" =>
              /\ result.confidence >= 4000 /\ result.confidence < 6000
              /\ EndsWith(result.answer, CAUTION_NOTICE)
        /\ result.guardrail = "ok" => result.confidence >= 6000

\* C36 witness: the controller reported an ungrounded answer over a pool
\* whose computed confidence is at least 0.6; the response is not_found with
\* the capped confidence 0.35.
C36_Witness ==
    /\ pc = "done"
    /\ structured # NONE
    /\ ~structured.grounded /\ ~structured.not_found
    /\ calculateConfidence(gatheredSources, structured.cited_chunk_ids) >= 6000
    /\ result.guardrail = "not_found"
    /\ result.confidence = 3500

\* The guardrail values in order, not_found lowest.
GuardrailRank(guardrail) ==
    CASE guardrail = "not_found" -> 0
      [] guardrail = "caution" -> 1
      [] guardrail = "ok" -> 2

\* C37: with the controller's cited_chunk_ids held fixed, the merge of one
\* more retrieval result into the pool never lowers the confidence computed
\* from the pool, and never moves the guardrail of a grounded answer from ok
\* or caution towards not_found.
C37_MergeNeverLowersConfidence ==
    [][\A cited \in CitedLists :
          /\ calculateConfidence(gatheredSources', cited)
                >= calculateConfidence(gatheredSources, cited)
          /\ GuardrailRank(Verdict(gatheredSources', GroundedAnswer(cited)).guardrail)
                >= GuardrailRank(Verdict(gatheredSources, GroundedAnswer(cited)).guardrail)
      ]_vars

\* The paragraphs the loop has taken, and the texts that hold them: the
\* chunks pushed so far and the buffer.
TakenParagraphs == SubSeq(bdParams.paragraphs, 1, Len(bdParams.paragraphs) - Len(bdRest))

Pieces == IF bdPc = "done" THEN bdChunks ELSE Append(bdChunks, bdCurrent)

\* Character i of paragraph p lies in a run of p, not of whitespace only,
\* that one of the pieces contains.
Kept(p, i) ==
    \E a \in 1..i, b \in i..Len(p) :
        /\ \E j \in a..b : p[j] \notin Whitespace
        /\ \E k \in 1..Len(Pieces) : IsInfix(SubSeq(p, a, b), Pieces[k])

\* C38 as stated: chunking drops no text; every character of every
\* whitespace-normalized paragraph of the page appears, in order, in at
\* least one chunk of the page, across a flush and across a hard split.
C38_NoCharacterDropped ==
    bdPc \in {"loop", "done"} =>
        \A n \in 1..Len(TakenParagraphs) :
            \A i \in 1..Len(TakenParagraphs[n]) : Kept(TakenParagraphs[n], i)

\* C38: chunking drops no text but the space a hard split cuts at.  Every
\* non-whitespace character of every whitespace-normalized paragraph of the
\* page appears, in order, in at least one chunk of the page, across a flush
\* and across a hard split; a space of a paragraph is in no chunk only when
\* overlap_size is 0 and a chunk ends right before it, the next text
\* starting right after it.
C38_NoLetterDropped ==
    bdPc \in {"loop", "done"} =>
        \A n \in 1..Len(TakenParagraphs) :
            LET p == TakenParagraphs[n]
            IN  \A i \in 1..Len(p) :
                    \/ Kept(p, i)
                    \/ /\ p[i] \in Whitespace
                       /\ bdParams.overlapChars = 0
                       /\ i > 1 /\ i < Len(p)
                       /\ \E k \in 1..Len(Pieces) - 1 :
                             /\ Pieces[k] # <<>> /\ Pieces[k + 1] # <<>>
                             /\ Pieces[k][Len(Pieces[k])] = p[i - 1]
                             /\ Head(Pieces[k + 1]) = p[i + 1]

\* C38 witness: the page "ab", blank line, "cd ef gh" with target 5 and
\* overlap 0: "ab" was flushed, the second paragraph was split after "cd ef",
\* and the rest is the last chunk, the space at the cut left out.
C38_Witness ==
    /\ bdPc = "done"
    /\ bdParams.targetChars = 5
    /\ bdParams.overlapChars = 0
    /\ bdParams.paragraphs = <<<<"a", "b">>, <<"c", "d", WS, "e", "f", WS, "g", "h">>>>
    /\ bdChunks = <<<<"a", "b">>, <<"c", "d", WS, "e", "f">>, <<"g", "h">>>>

\* Every chunk id that a returned call carried is in the pool once, with the
\* highest score any returned call gave it.
NothingLost ==
    /\ \A id \in AllChunkIds :
          observed[id] # NONE =>
              \E i \in 1..Len(gatheredSources) :
                  /\ gatheredSources[i].id = id
                  /\ gatheredSources[i].score = observed[id].score
    /\ Len(gatheredSources) = Cardinality({id \in AllChunkIds : observed[id] # NONE})

\* C39: when retrieval calls of one run overlap, the pool is the one that
\* merging their results one call at a time, in the order the calls return,
\* gives: every change of the pool is the merge of the whole result of one
\* returning call into the pool as it then is, and no result of a returned
\* call is lost or overwritten.
C39_OverlappingMergesSerialize ==
    /\ []NothingLost
    /\ [][gatheredSources' # gatheredSources =>
             /\ \E c \in inFlight : inFlight' = inFlight \ {c}
             /\ \E hits \in QueryResults :
                   gatheredSources' = mergeSources(gatheredSources, hits,
                                                   MAX_SOURCES_IN_STATE)
       ]_vars

\* C39 witness: three calls were issued; the first is still in flight and
\* the two issued after it have returned while it ran, their results both in
\* the pool.
C39_Witness ==
    /\ calls.retrieval = 3
    /\ inFlight = {Call("queryHybrid", 1)}
    /\ Len(gatheredSources) = 2
    /\ gatheredSources[1].score > gatheredSources[2].score
    /\ NothingLost

====
